---- MODULE Spec2Model ----
(***************************************************************************)
(* Adaptive multi-peer media session engine: QualityManager (tier catalog, *)
(* debounced tier selection), WebRTCManager (peer table, stats samplers,   *)
(* local capture and its reconfiguration, teardown) and the room page's    *)
(* stats handler and quality effect.                                       *)
(***************************************************************************)
EXTENDS Integers, Sequences, FiniteSets, TLC

(***************************************************************************)
(* Bounds of the model.                                                    *)
(***************************************************************************)
\* horizon of the timed specification, in clock ticks
MaxTicks == 5
\* updateBandwidth calls explored in the timed specification
MaxTimedSamples == 3
\* updateBandwidth calls explored in the window specification (> window size)
MaxWindowSamples == 11
\* horizon of the window specification, in clock ticks (two debounce periods)
MaxWindowTicks == 4

\* connection objects created in all
MaxConns == 2
\* stats queries made by the samplers in all
MaxStatsReports == 2
\* config.maxPeers is drawn from 1..MaxPeersConfig
MaxPeersConfig == 2

\* initialize() calls explored in the set-up specification
MaxInitCalls == 2
\* getUserMedia calls after which no further capture operation is started (the
\* audio-only fallback of a started initialize() call is always made)
MaxAcquisitions == 4
\* initialize() calls, adjustQuality calls and clock ticks explored in the
\* specifications of the running session
MaxSessionInitCalls == 1
MaxSessionSamples == 2
MaxSessionTicks == 2
\* sendMessage and broadcastMessage calls explored in the message specification
MaxMessages == 1
\* adjustQuality calls explored in the specification of overlapping calls
MaxOverlapSamples == 3
\* cron tasks created by the attendance scheduler
MaxJobs == 3
\* restart timeouts pending at once, and recognitions started
MaxRestartTimers == 3
MaxRecognitionStarts == 5
\* calls of the join route and of the approve route explored
MaxJoins == 3
MaxApprovals == 3
\* maxParticipants of a created room is drawn from 1..MaxCapacity
MaxCapacity == 2

\* peer identifiers
PeerIds == {"p1", "p2"}
\* the bandwidth field of a stats object (kbps); Undefined when it has none
Undefined == 0 - 1
StatsBandwidths == {Undefined, 300, 2000}

\* bandwidth samples (kbps) fed to the controller: windows of 1..10 of them reach
\* every tier of the catalog, by the scan and by the fallback after it
Bandwidths == {10, 2950}
\* a sample that selects 144p: 246 <= 0.8 * 400 < 528
UltraLowBandwidths == {400}
\* the tiers selected by hand in the 144p specification
ManualSelections == {"144p", "480p"}
\* room ids of the room routes
RoomIds == {"r1"}
\* the adminId of a created room; user ids are 1, 2, ...; an id nobody has
RoomAdmin == 0
Nobody == 0 - 1
\* quality names passed to the constructor and to setQuality: two of the
\* catalog and one that is not
QualityNames == {"1080p", "audio-only", "4k"}
\* the samples of the steady-state windows
SteadyBandwidths == {100, 2500}
\* the samples of the fan-out specification: a link that affords video
FanoutBandwidths == {2950}

(***************************************************************************)
(* Program constants.                                                      *)
(***************************************************************************)
QUALITY_TIERS_AudioFloorRaised ==
  << [name |-> "1080p", width |-> 1920, height |-> 1080, frameRate |-> 30,
      videoBitrate |-> 2000, audioBitrate |-> 328, totalBandwidth |-> 2328],
     [name |-> "720p", width |-> 1280, height |-> 720, frameRate |-> 30,
      videoBitrate |-> 1200, audioBitrate |-> 256, totalBandwidth |-> 1456],
     [name |-> "480p", width |-> 854, height |-> 480, frameRate |-> 25,
      videoBitrate |-> 800, audioBitrate |-> 192, totalBandwidth |-> 992],
     [name |-> "240p", width |-> 426, height |-> 240, frameRate |-> 20,
      videoBitrate |-> 400, audioBitrate |-> 128, totalBandwidth |-> 528],
     [name |-> "144p", width |-> 256, height |-> 144, frameRate |-> 15,
      videoBitrate |-> 150, audioBitrate |-> 96, totalBandwidth |-> 246],
     [name |-> "audio-only", width |-> 0, height |-> 0, frameRate |-> 0,
      videoBitrate |-> 0, audioBitrate |-> 64, totalBandwidth |-> 256] >>

\* QUALITY_TIERS, richest first
QUALITY_TIERS ==
  << [name |-> "1080p", width |-> 1920, height |-> 1080, frameRate |-> 30,
      videoBitrate |-> 2000, audioBitrate |-> 328, totalBandwidth |-> 2328],
     [name |-> "720p", width |-> 1280, height |-> 720, frameRate |-> 30,
      videoBitrate |-> 1200, audioBitrate |-> 256, totalBandwidth |-> 1456],
     [name |-> "480p", width |-> 854, height |-> 480, frameRate |-> 25,
      videoBitrate |-> 800, audioBitrate |-> 192, totalBandwidth |-> 992],
     [name |-> "240p", width |-> 426, height |-> 240, frameRate |-> 20,
      videoBitrate |-> 400, audioBitrate |-> 128, totalBandwidth |-> 528],
     [name |-> "144p", width |-> 256, height |-> 144, frameRate |-> 15,
      videoBitrate |-> 150, audioBitrate |-> 96, totalBandwidth |-> 246],
     [name |-> "audio-only", width |-> 0, height |-> 0, frameRate |-> 0,
      videoBitrate |-> 0, audioBitrate |-> 64, totalBandwidth |-> 64] >>

\* the VideoQuality names
VideoQuality == {QUALITY_TIERS[i].name : i \in 1..Len(QUALITY_TIERS)}

\* bandwidthHistory.length > 10 drops the oldest sample
HistorySize == 10
\* setTimeout(..., 2000) of the stabilization timer
DebounceMs == 2000
\* the clock advances in steps of half a debounce period
TickMs == DebounceMs \div 2

\* a timer handle that is not set (null; falsy like 0)
NoTimer == 0

VARIABLES
  currentTier,        \* QualityManager.currentTier
  bandwidthHistory,   \* QualityManager.bandwidthHistory
  stabilizationTimer, \* QualityManager.stabilizationTimer (a timeout handle)
  timers,             \* the runtime's pending timeouts: [id, deadline]
  now,                \* the clock (ms)
  config,             \* WebRTCManager.config
  peers,              \* WebRTCManager.peers: peer id -> connection (0: no entry)
  conns,              \* every PeerConnection object created, by creation order
  intervals,          \* the runtime's scheduled sampler intervals: [conn, peerId]
  inflight,           \* sampler callbacks awaiting getConnectionStats: [conn, peerId]
  localStream,        \* WebRTCManager.localStream
  stopped,            \* the media tracks that were stopped
  capturePending,     \* capture operations awaiting the media devices
  isListening,        \* AudioProcessor.isListening
  audioSettings,      \* AudioProcessor.audioSettings (of the manager's processor)
  isInitialized,      \* WebRTCManager.isInitialized
  initLog,            \* history: every initialize() call: its outcome, its ready events
  acquisitionLog,     \* history: every getUserMedia call: the operation that made it
  attempted,          \* history: the connections the last step called replaceTrack on
  connectionStats,    \* RoomPage state connectionStats
  currentQuality,     \* RoomPage state currentQuality
  effectBandwidth,    \* connectionStats.bandwidth at the last run of the quality effect
  pageTier,           \* currentTier of the RoomPage's own QualityManager
  latest,             \* history: connection -> its last reported bandwidth (0: none)
  reports,            \* history: number of sampler callbacks that queried the stats
  arrivals,           \* history: every sample passed to updateBandwidth, in order
  lastSampleAt,       \* history: time of the last updateBandwidth call
  lastCommitAt,       \* history: time of the last tier change by the timer (-1: none)
  commitGap,          \* history: time between the last two of them (-1: fewer than two)
  cronJobs,           \* the cron tasks created so far, in creation order
  scheduledJobs,      \* AttendanceScheduler.scheduledJobs: room id -> task (0: none)
  activeTracking,     \* AttendanceScheduler.activeTracking: room id -> schedule (0: none)
  scheduleCount,      \* history: schedules passed to scheduleAttendanceTracking
  cancelMark,         \* history: room id -> tasks existing at its last cancel or dispose
  recognition,        \* state of AudioProcessor.recognition
  restartTimers,      \* pending 100 ms restart timeouts of the onend handler
  recognitionStarts,  \* history: recognitions started
  rooms,              \* the rooms store of the room routes: room id -> room
  joinRequests,       \* the joinRequests store: room id -> the room's requests
  response,           \* the response of the last route call
  userCount,          \* history: user objects created by the join route
  approvalCalls,      \* history: calls of the approve route
  initialQuality,     \* history: the quality name the QualityManager was constructed with
  sendLog,            \* history: every peer.send call: [msg, conn, sent]
  msgCalls,           \* history: every sendMessage/broadcastMessage call
  lastCall,           \* history: the operation that made the last step
  emitted             \* history: the events emitted by the last step

qmVars == <<currentTier, bandwidthHistory, stabilizationTimer, timers>>
histVars == <<arrivals, lastSampleAt, lastCommitAt, commitGap, lastCall, emitted>>
meshVars == <<config, peers, conns, intervals, inflight>>
captureVars == <<localStream, stopped, capturePending, isListening, audioSettings,
                 isInitialized, initLog, acquisitionLog, attempted>>
pageVars == <<connectionStats, currentQuality, effectBandwidth, pageTier>>
msgVars == <<sendLog, msgCalls>>
roomVars == <<rooms, joinRequests, response, userCount, approvalCalls>>
schedVars == <<cronJobs, scheduledJobs, activeTracking, scheduleCount, cancelMark>>
speechVars == <<recognition, restartTimers, recognitionStarts>>
vars == <<qmVars, now, meshVars, captureVars, pageVars, msgVars, initialQuality, roomVars,
          schedVars, speechVars,
          latest, reports, histVars>>

(***************************************************************************)
(* QualityManager                                                          *)
(***************************************************************************)
\* QUALITY_TIERS.find(tier => tier.name === quality): the first match or undefined
FindTierOffByOne(quality) ==
  LET hits == {i \in 1..Len(QUALITY_TIERS) : QUALITY_TIERS[i].name = quality}
      first == CHOOSE i \in hits : \A j \in hits : i <= j
  IN IF hits = {} THEN <<>>
     ELSE <<QUALITY_TIERS[IF first < Len(QUALITY_TIERS) THEN first + 1 ELSE first]>>
FindTier(quality) ==
  LET hits == {i \in 1..Len(QUALITY_TIERS) : QUALITY_TIERS[i].name = quality}
  IN IF hits = {} THEN <<>>
     ELSE <<QUALITY_TIERS[CHOOSE i \in hits : \A j \in hits : i <= j]>>

InitialTierFallsToFirst(quality) ==
  IF FindTier(quality) # <<>> THEN FindTier(quality)[1]
  ELSE QUALITY_TIERS[1]
\* constructor(initialQuality = '720p')
InitialTier(quality) ==
  IF FindTier(quality) # <<>> THEN FindTier(quality)[1]
  ELSE QUALITY_TIERS[2]

\* bandwidthHistory.push(bandwidth); if (length > 10) shift()
PushSampleDropNewest(history, bandwidth) ==
  IF Len(history) + 1 > HistorySize THEN history ELSE Append(history, bandwidth)
PushSample(history, bandwidth) ==
  LET pushed == Append(history, bandwidth)
  IN IF Len(pushed) > HistorySize THEN Tail(pushed) ELSE pushed

\* clearTimeout(handle): the pending timeout with that handle is cancelled
ClearTimeoutForgotten(pending, handle) == pending
ClearTimeout(pending, handle) ==
  IF handle # NoTimer THEN {t \in pending : t.id # handle} ELSE pending

\* setTimeout(..., 2000) called at time t: when the timeout is due
StabilizationDeadlineHalved(t) == t + DebounceMs \div 2
StabilizationDeadline(t) == t + DebounceMs

\* setTimeout: a fresh handle (handles are opaque; the least one not pending)
NewTimerId(pending) ==
  CHOOSE i \in 1..(Cardinality(pending) + 1) : \A t \in pending : t.id # i

RECURSIVE SumSeq(_)
SumSeq(s) == IF s = <<>> THEN 0 ELSE Head(s) + SumSeq(Tail(s))

\* getAverageBandwidth(): the mean as the exact fraction num/den (0 when empty)
getAverageBandwidth(history) ==
  IF Len(history) = 0 THEN [num |-> 0, den |-> 1]
  ELSE [num |-> SumSeq(history), den |-> Len(history)]

\* getRecommendedTier: bufferedBandwidth = bandwidth * 0.8; the first tier of the
\* catalog with bufferedBandwidth >= totalBandwidth, else the last tier.
\* (num/den) * 0.8 >= total  <=>  8 * num >= 10 * total * den; for integer samples
\* up to 3000 and 1..10 samples the double-precision comparison agrees with it.
RECURSIVE ScanTiersPoorestFirst(_, _)
ScanTiersPoorestFirst(avg, i) ==
  IF i > Len(QUALITY_TIERS) THEN QUALITY_TIERS[Len(QUALITY_TIERS)]
  ELSE LET k == Len(QUALITY_TIERS) + 1 - i
       IN IF 8 * avg.num >= 10 * QUALITY_TIERS[k].totalBandwidth * avg.den
          THEN QUALITY_TIERS[k]
          ELSE ScanTiersPoorestFirst(avg, i + 1)

RECURSIVE ScanTiers(_, _)
ScanTiers(avg, i) ==
  IF i > Len(QUALITY_TIERS) THEN QUALITY_TIERS[Len(QUALITY_TIERS)]
  ELSE IF 8 * avg.num >= 10 * QUALITY_TIERS[i].totalBandwidth * avg.den
       THEN QUALITY_TIERS[i]
       ELSE ScanTiers(avg, i + 1)

RECURSIVE ScanTiersNoBuffer(_, _)
ScanTiersNoBuffer(avg, i) ==
  IF i > Len(QUALITY_TIERS) THEN QUALITY_TIERS[Len(QUALITY_TIERS)]
  ELSE IF avg.num >= QUALITY_TIERS[i].totalBandwidth * avg.den
       THEN QUALITY_TIERS[i]
       ELSE ScanTiersNoBuffer(avg, i + 1)

getRecommendedTierNoBuffer(avg) == ScanTiersNoBuffer(avg, 1)
getRecommendedTier(avg) == ScanTiers(avg, 1)

QualityChanged(tier) == [type |-> "quality-changed", peer |-> "", value |-> tier.name]

\* updateBandwidth(bandwidth): the controller part of a step
UpdateBandwidthQMEager(bandwidth) ==
  LET cleared == ClearTimeout(timers, stabilizationTimer)
      id == NewTimerId(cleared)
      pushed == PushSample(bandwidthHistory, bandwidth)
  IN /\ bandwidthHistory' = pushed
     /\ timers' = cleared \cup {[id |-> id, deadline |-> StabilizationDeadline(now)]}
     /\ stabilizationTimer' = id
     /\ arrivals' = Append(arrivals, bandwidth)
     /\ lastSampleAt' = now
     /\ currentTier' = getRecommendedTier(getAverageBandwidth(pushed))
UpdateBandwidthQM(bandwidth) ==
  LET cleared == ClearTimeout(timers, stabilizationTimer)
      id == NewTimerId(cleared)
  IN /\ bandwidthHistory' = PushSample(bandwidthHistory, bandwidth)
     /\ timers' = cleared \cup {[id |-> id, deadline |-> StabilizationDeadline(now)]}
     /\ stabilizationTimer' = id
     /\ arrivals' = Append(arrivals, bandwidth)
     /\ lastSampleAt' = now
     /\ UNCHANGED currentTier

\* QualityManager.updateBandwidth called directly, at most cap calls in all
UpdateBandwidthNotifies(bandwidth, cap) ==
  /\ Len(arrivals) < cap
  /\ UpdateBandwidthQM(bandwidth)
  /\ lastCall' = [op |-> "updateBandwidth", arg |-> bandwidth]
  /\ emitted' = <<QualityChanged(currentTier)>>
  /\ UNCHANGED <<now, lastCommitAt, commitGap>>
  /\ UNCHANGED <<meshVars, captureVars, pageVars, msgVars, initialQuality, roomVars, schedVars, speechVars, latest, reports>>
UpdateBandwidth(bandwidth, cap) ==
  /\ Len(arrivals) < cap
  /\ UpdateBandwidthQM(bandwidth)
  /\ lastCall' = [op |-> "updateBandwidth", arg |-> bandwidth]
  /\ emitted' = <<>>
  /\ UNCHANGED <<now, lastCommitAt, commitGap>>
  /\ UNCHANGED <<meshVars, captureVars, pageVars, msgVars, initialQuality, roomVars, schedVars, speechVars, latest, reports>>

\* the stabilization timeout t fires (not before its deadline): adjustQuality()
StabilizationTimerFiresAlwaysEmits(t) ==
  /\ t \in timers
  /\ now >= t.deadline
  /\ timers' = timers \ {t}
  /\ LET recommendedTier == getRecommendedTier(getAverageBandwidth(bandwidthHistory))
     IN /\ currentTier' = recommendedTier
        /\ emitted' = <<QualityChanged(recommendedTier)>>
        /\ lastCommitAt' = now
        /\ commitGap' = IF lastCommitAt = -1 THEN -1 ELSE now - lastCommitAt
  /\ lastCall' = [op |-> "adjustQuality", arg |-> t.id]
  /\ UNCHANGED <<bandwidthHistory, stabilizationTimer, now, arrivals, lastSampleAt>>
  /\ UNCHANGED <<meshVars, captureVars, pageVars, msgVars, initialQuality, roomVars, schedVars, speechVars, latest, reports>>
StabilizationTimerFires(t) ==
  /\ t \in timers
  /\ now >= t.deadline
  /\ timers' = timers \ {t}
  /\ LET recommendedTier == getRecommendedTier(getAverageBandwidth(bandwidthHistory))
     IN IF recommendedTier.name # currentTier.name
        THEN /\ currentTier' = recommendedTier
             /\ emitted' = <<QualityChanged(recommendedTier)>>
             /\ lastCommitAt' = now
             /\ commitGap' = IF lastCommitAt = -1 THEN -1 ELSE now - lastCommitAt
        ELSE /\ emitted' = <<>>
             /\ UNCHANGED <<currentTier, lastCommitAt, commitGap>>
  /\ lastCall' = [op |-> "adjustQuality", arg |-> t.id]
  /\ UNCHANGED <<bandwidthHistory, stabilizationTimer, now, arrivals, lastSampleAt>>
  /\ UNCHANGED <<meshVars, captureVars, pageVars, msgVars, initialQuality, roomVars, schedVars, speechVars, latest, reports>>

\* setQuality(quality)
SetQualityClearsWindow(quality) ==
  /\ IF FindTier(quality) # <<>>
     THEN /\ currentTier' = FindTier(quality)[1]
          /\ emitted' = <<QualityChanged(FindTier(quality)[1])>>
     ELSE /\ emitted' = <<>>
          /\ UNCHANGED currentTier
  /\ bandwidthHistory' = <<>>
  /\ lastCall' = [op |-> "setQuality", arg |-> quality]
  /\ UNCHANGED <<stabilizationTimer, timers, now,
                 arrivals, lastSampleAt, lastCommitAt, commitGap>>
  /\ UNCHANGED <<meshVars, captureVars, pageVars, msgVars, initialQuality, roomVars, schedVars, speechVars, latest, reports>>
SetQuality(quality) ==
  /\ IF FindTier(quality) # <<>>
     THEN /\ currentTier' = FindTier(quality)[1]
          /\ emitted' = <<QualityChanged(FindTier(quality)[1])>>
     ELSE /\ emitted' = <<>>
          /\ UNCHANGED currentTier
  /\ lastCall' = [op |-> "setQuality", arg |-> quality]
  /\ UNCHANGED <<bandwidthHistory, stabilizationTimer, timers, now,
                 arrivals, lastSampleAt, lastCommitAt, commitGap>>
  /\ UNCHANGED <<meshVars, captureVars, pageVars, msgVars, initialQuality, roomVars, schedVars, speechVars, latest, reports>>

\* time passes, up to horizon ticks; a due timeout may fire late, never early
Tick(horizon) ==
  /\ now + TickMs <= horizon * TickMs
  /\ now' = now + TickMs
  /\ lastCall' = [op |-> "tick", arg |-> 0]
  /\ emitted' = <<>>
  /\ UNCHANGED <<qmVars, arrivals, lastSampleAt, lastCommitAt, commitGap>>
  /\ UNCHANGED <<meshVars, captureVars, pageVars, msgVars, initialQuality, roomVars, schedVars, speechVars, latest, reports>>

(***************************************************************************)
(* WebRTCManager: peer table and stats samplers                            *)
(***************************************************************************)
\* a MediaStream object: its identity and its tracks in insertion order;
\* NoStream is the null localStream
NoStream == [id |-> 0, video |-> <<>>, audio |-> <<>>, open |-> FALSE]

\* the identity of a MediaStreamTrack: the acquisition that made it and its kind
TrackId(track) == [src |-> track.src, kind |-> track.kind]
NoTrack == [src |-> 0, kind |-> ""]

Range(s) == {s[i] : i \in 1..Len(s)}
TrackIds(tracks) == {TrackId(tracks[i]) : i \in 1..Len(tracks)}

Event(type, peerId, value) == [type |-> type, peer |-> peerId, value |-> value]

\* peer.destroy(): the connection is closed for good and its 'close' event is
\* emitted to the handlers, once, after the call
Destroy(cs, c) ==
  IF cs[c].destroyed THEN cs
  ELSE [cs EXCEPT ![c].destroyed = TRUE, ![c].connected = FALSE,
                  ![c].closePending = TRUE]

\* removePeer(peerId): the connections and the table after it
removePeerKeepsAlive(cs, table, peerId) ==
  IF table[peerId] # 0
  THEN [conns |-> cs, peers |-> [table EXCEPT ![peerId] = 0]]
  ELSE [conns |-> cs, peers |-> table]
removePeerClearsTable(cs, table, peerId) ==
  IF table[peerId] # 0
  THEN [conns |-> Destroy(cs, table[peerId]), peers |-> [q \in DOMAIN table |-> 0]]
  ELSE [conns |-> cs, peers |-> table]
removePeer(cs, table, peerId) ==
  IF table[peerId] # 0
  THEN [conns |-> Destroy(cs, table[peerId]), peers |-> [table EXCEPT ![peerId] = 0]]
  ELSE [conns |-> cs, peers |-> table]

\* createPeer(peerId, isInitiator), at most cap connections created in all
CreatePeer(peerId, isInitiator, cap) ==
  /\ Len(conns) < cap
  /\ LET removed == removePeer(conns, peers, peerId)
         connection == [id |-> peerId, isHost |-> isInitiator,
                        quality |-> currentTier.name,
                        streams |-> IF localStream.open THEN <<localStream.id>> ELSE <<>>,
                        senders |-> TrackIds(localStream.video) \cup TrackIds(localStream.audio),
                        connected |-> FALSE, destroyed |-> FALSE,
                        closePending |-> FALSE]
     IN /\ conns' = Append(removed.conns, connection)
        /\ peers' = [removed.peers EXCEPT ![peerId] = Len(conns) + 1]
  /\ lastCall' = [op |-> "createPeer", arg |-> peerId]
  /\ emitted' = <<>>
  /\ UNCHANGED <<qmVars, now, config, intervals, inflight, captureVars, pageVars, msgVars, initialQuality, roomVars, schedVars, speechVars,
                 latest, reports, arrivals, lastSampleAt, lastCommitAt, commitGap>>

\* removePeer(peerId) called by the application
RemovePeer(peerId) ==
  /\ LET removed == removePeer(conns, peers, peerId)
     IN /\ conns' = removed.conns
        /\ peers' = removed.peers
  /\ lastCall' = [op |-> "removePeer", arg |-> peerId]
  /\ emitted' = <<>>
  /\ UNCHANGED <<qmVars, now, config, intervals, inflight, captureVars, pageVars, msgVars, initialQuality, roomVars, schedVars, speechVars,
                 latest, reports, arrivals, lastSampleAt, lastCommitAt, commitGap>>

\* startConnectionMonitoring(peerId): setInterval(..., 5000) over the table's
\* connection for peerId, if there is one
startConnectionMonitoring(scheduled, table, peerId) ==
  IF table[peerId] = 0 THEN scheduled
  ELSE scheduled \cup {[conn |-> table[peerId], peerId |-> peerId]}

\* the 'connect' event of connection c: onPeerConnected, startConnectionMonitoring
PeerConnects(c) ==
  /\ c \in 1..Len(conns)
  /\ ~conns[c].destroyed
  /\ ~conns[c].connected
  /\ conns' = [conns EXCEPT ![c].connected = TRUE]
  /\ intervals' = startConnectionMonitoring(intervals, peers, conns[c].id)
  /\ lastCall' = [op |-> "connect", arg |-> c]
  /\ emitted' = <<Event("peer-connected", conns[c].id, 0)>>
  /\ UNCHANGED <<qmVars, now, config, peers, inflight, captureVars, pageVars, msgVars, initialQuality, roomVars, schedVars, speechVars,
                 latest, reports, arrivals, lastSampleAt, lastCommitAt, commitGap>>

\* the 'error' event of connection c: the connection destroys itself with the
\* error; the handler reports onPeerError
PeerErrors(c) ==
  /\ c \in 1..Len(conns)
  /\ ~conns[c].destroyed
  /\ conns' = Destroy(conns, c)
  /\ lastCall' = [op |-> "error", arg |-> c]
  /\ emitted' = <<Event("peer-error", conns[c].id, 0)>>
  /\ UNCHANGED <<qmVars, now, config, peers, intervals, inflight, captureVars,
                 pageVars, msgVars, initialQuality, roomVars, schedVars, speechVars, latest, reports, arrivals, lastSampleAt, lastCommitAt, commitGap>>

\* connection c is closed by the remote side
PeerClosesRemotely(c) ==
  /\ c \in 1..Len(conns)
  /\ ~conns[c].destroyed
  /\ conns' = Destroy(conns, c)
  /\ lastCall' = [op |-> "remoteClose", arg |-> c]
  /\ emitted' = <<>>
  /\ UNCHANGED <<qmVars, now, config, peers, intervals, inflight, captureVars,
                 pageVars, msgVars, initialQuality, roomVars, schedVars, speechVars, latest, reports, arrivals, lastSampleAt, lastCommitAt, commitGap>>

\* the 'close' event of connection c: removePeer(id), onPeerDisconnected(id)
PeerCloseEvent(c) ==
  /\ c \in 1..Len(conns)
  /\ conns[c].closePending
  /\ LET delivered == [conns EXCEPT ![c].closePending = FALSE]
         removed == removePeer(delivered, peers, conns[c].id)
     IN /\ conns' = removed.conns
        /\ peers' = removed.peers
  /\ lastCall' = [op |-> "close", arg |-> c]
  /\ emitted' = <<Event("peer-disconnected", conns[c].id, 0)>>
  /\ UNCHANGED <<qmVars, now, config, intervals, inflight, captureVars, pageVars, msgVars, initialQuality, roomVars, schedVars, speechVars,
                 latest, reports, arrivals, lastSampleAt, lastCommitAt, commitGap>>

\* the interval callback of a sampler starts: a connection that is not connected
\* clears the interval, a connected one awaits getConnectionStats (one query of
\* a sampler in flight at a time)
SamplerFires(iv) ==
  /\ iv \in intervals
  /\ IF ~conns[iv.conn].connected
     THEN /\ intervals' = intervals \ {iv}
          /\ UNCHANGED <<inflight, reports>>
     ELSE /\ reports < MaxStatsReports
          /\ iv \notin inflight
          /\ inflight' = inflight \cup {iv}
          /\ reports' = reports + 1
          /\ UNCHANGED intervals
  /\ lastCall' = [op |-> "sampler", arg |-> iv.conn]
  /\ emitted' = <<>>
  /\ UNCHANGED <<qmVars, now, config, peers, conns, captureVars, pageVars, msgVars, initialQuality, roomVars, schedVars, speechVars,
                 latest, arrivals, lastSampleAt, lastCommitAt, commitGap>>

\* RoomPage onConnectionStatsUpdate: stats.bandwidth || 1000
ReportedBandwidth(bandwidth) ==
  IF bandwidth = Undefined \/ bandwidth = 0 THEN 1000 ELSE bandwidth

\* RoomPage onConnectionStatsUpdate: the quality label of stats.bandwidth
QualityLabel(bandwidth) ==
  IF bandwidth # Undefined /\ bandwidth > 1000 THEN "excellent"
  ELSE IF bandwidth # Undefined /\ bandwidth > 500 THEN "good"
  ELSE "poor"

\* getConnectionStats: the stats objects a stats query resolves to. The source
\* resolves to a fixed object without a bandwidth field, standing for the
\* getStats() query of the connection; the page reads stats.bandwidth of it.
getConnectionStats == {[bandwidth |-> b] : b \in StatsBandwidths}

\* the awaited stats arrive: onConnectionStatsUpdate(peerId, stats), which the
\* page handles with setConnectionStats
SamplerReports(iv, stats) ==
  /\ iv \in inflight
  /\ inflight' = inflight \ {iv}
  /\ connectionStats' = [bandwidth |-> ReportedBandwidth(stats.bandwidth),
                         latency |-> 50,
                         quality |-> QualityLabel(stats.bandwidth)]
  /\ latest' = [latest EXCEPT ![iv.conn] = ReportedBandwidth(stats.bandwidth)]
  /\ lastCall' = [op |-> "stats", arg |-> iv.conn]
  /\ emitted' = <<Event("connection-stats-updated", iv.peerId, stats.bandwidth)>>
  /\ UNCHANGED <<qmVars, now, config, peers, conns, intervals, captureVars,
                 currentQuality, effectBandwidth, pageTier, msgVars, initialQuality, roomVars, schedVars, speechVars, reports,
                 arrivals, lastSampleAt, lastCommitAt, commitGap>>

SamplerQueryFailsStopsSampler(iv) ==
  /\ iv \in inflight
  /\ inflight' = inflight \ {iv}
  /\ intervals' = intervals \ {iv}
  /\ lastCall' = [op |-> "statsFailed", arg |-> iv.conn]
  /\ emitted' = <<>>
  /\ UNCHANGED <<qmVars, now, config, peers, conns, captureVars, pageVars, msgVars, initialQuality, roomVars, schedVars, speechVars,
                 latest, reports, arrivals, lastSampleAt, lastCommitAt, commitGap>>

\* the awaited stats query fails: the error is logged, nothing is reported
SamplerQueryFails(iv) ==
  /\ iv \in inflight
  /\ inflight' = inflight \ {iv}
  /\ lastCall' = [op |-> "statsFailed", arg |-> iv.conn]
  /\ emitted' = <<>>
  /\ UNCHANGED <<qmVars, now, config, peers, conns, intervals, captureVars, pageVars, msgVars, initialQuality, roomVars, schedVars, speechVars,
                 latest, reports, arrivals, lastSampleAt, lastCommitAt, commitGap>>

\* a capture operation awaiting the media devices: the operation, the
\* initialize() call it belongs to (0: none), the stream its getUserMedia call
\* yields (0: none), the constraints asked for, the track it applies to
Pending(op, call, src, constraints, target) ==
  [op |-> op, call |-> call, src |-> src, constraints |-> constraints, target |-> target]

\* QualityManager.getConstraints(): video false for audio-only, else the tier's
\* resolution and frame rate (named by the tier); audio true
getConstraints(tier) ==
  IF tier.name = "audio-only" THEN [video |-> "", audio |-> "default"]
  ELSE [video |-> tier.name, audio |-> "default"]

\* QualityManager.getUltraLowBandwidthConstraints(): 256x144 at 10..15 fps, mono 16 kHz
getUltraLowBandwidthConstraints == [video |-> "ultra-low", audio |-> "mono-16k"]

\* { video: false, audio: true } of the fallback
AudioOnlyConstraintsWithVideo == [video |-> "720p", audio |-> "default"]
AudioOnlyConstraints == [video |-> "", audio |-> "default"]

\* the stream a successful getUserMedia(constraints) call resolves to
getUserMedia(src, constraints) ==
  [id |-> src,
   video |-> IF constraints.video = "" THEN <<>>
             ELSE <<[src |-> src, kind |-> "video", constraints |-> constraints.video]>>,
   audio |-> <<[src |-> src, kind |-> "audio", constraints |-> constraints.audio]>>,
   open |-> TRUE]

\* setQuality(quality) of the manager's controller: the tier and the events after it
setQualityTier(current, quality) ==
  IF FindTier(quality) # <<>> THEN FindTier(quality)[1] ELSE current
setQualityEvents(quality) ==
  IF FindTier(quality) # <<>> THEN <<QualityChanged(FindTier(quality)[1])>> ELSE <<>>

AdjustCaptureReacquires(newTier) ==
  IF ~localStream.open
  THEN UNCHANGED <<localStream, stopped, capturePending, acquisitionLog>>
  ELSE IF newTier.name = "audio-only"
  THEN /\ stopped' = stopped \cup TrackIds(localStream.video)
       /\ localStream' = [localStream EXCEPT !.video = <<>>]
       /\ UNCHANGED <<capturePending, acquisitionLog>>
  ELSE /\ Len(acquisitionLog) < MaxAcquisitions
       /\ capturePending' = capturePending \cup
            {Pending("restartVideoStream", 0, Len(acquisitionLog) + 1,
                     getConstraints(currentTier), NoTrack)}
       /\ acquisitionLog' =
            Append(acquisitionLog, [op |-> "restartVideoStream", call |-> 0])
       /\ UNCHANGED <<localStream, stopped>>

\* WebRTCManager.adjustQuality(bandwidth), up to its first await: the capture
\* source follows the tier that is current at the call
AdjustCapture(newTier) ==
  IF ~localStream.open
  THEN UNCHANGED <<localStream, stopped, capturePending, acquisitionLog>>
  ELSE IF newTier.name = "audio-only"
  THEN /\ stopped' = stopped \cup TrackIds(localStream.video)
       /\ localStream' = [localStream EXCEPT !.video = <<>>]
       /\ UNCHANGED <<capturePending, acquisitionLog>>
  ELSE IF localStream.video = <<>>
  THEN /\ Len(acquisitionLog) < MaxAcquisitions
       /\ capturePending' = capturePending \cup
            {Pending("restartVideoStream", 0, Len(acquisitionLog) + 1,
                     getConstraints(currentTier), NoTrack)}
       /\ acquisitionLog' =
            Append(acquisitionLog, [op |-> "restartVideoStream", call |-> 0])
       /\ UNCHANGED <<localStream, stopped>>
  ELSE /\ capturePending' = capturePending \cup
            {Pending("applyVideoConstraints", 0, 0,
                     [video |-> newTier.name, audio |-> ""],
                     TrackId(localStream.video[1]))}
       /\ UNCHANGED <<localStream, stopped, acquisitionLog>>

\* RoomPage quality effect, run when connectionStats.bandwidth has changed:
\* webrtcManager.adjustQuality(bandwidth); setCurrentQuality(getCurrentQuality())
QualityEffect ==
  /\ connectionStats.bandwidth # effectBandwidth
  /\ effectBandwidth' = connectionStats.bandwidth
  /\ IF connectionStats.bandwidth > 0
     THEN /\ UpdateBandwidthQM(connectionStats.bandwidth)
          /\ AdjustCapture(currentTier)
          /\ currentQuality' = currentTier.name
     ELSE UNCHANGED <<qmVars, arrivals, lastSampleAt, localStream, stopped,
                      capturePending, acquisitionLog, currentQuality>>
  /\ lastCall' = [op |-> "qualityEffect", arg |-> connectionStats.bandwidth]
  /\ emitted' = <<>>
  /\ UNCHANGED <<now, meshVars, isListening, audioSettings, isInitialized, initLog,
                 attempted, connectionStats, pageTier, msgVars, initialQuality, roomVars, schedVars, speechVars, latest, reports, lastCommitAt,
                 commitGap>>

RECURSIVE DestroyAll(_, _)
\* SpeechRecognition.stop(): a running recognition is asked to end
RecognitionStop(state) == IF state = "running" THEN "stopping" ELSE state

DestroyAll(cs, targets) ==
  IF targets = {} THEN cs
  ELSE LET c == CHOOSE x \in targets : TRUE
       IN DestroyAll(Destroy(cs, c), targets \ {c})

\* dispose(): every connection of the table destroyed, the table cleared, the
\* local tracks stopped, the audio processor disposed
Dispose ==
  /\ conns' = DestroyAll(conns, {peers[p] : p \in PeerIds} \ {0})
  /\ peers' = [p \in PeerIds |-> 0]
  /\ stopped' = stopped \cup TrackIds(localStream.video) \cup TrackIds(localStream.audio)
  /\ isListening' = FALSE
  /\ recognition' = IF isListening THEN RecognitionStop(recognition) ELSE recognition
  /\ lastCall' = [op |-> "dispose", arg |-> 0]
  /\ emitted' = <<>>
  /\ UNCHANGED <<qmVars, now, config, intervals, inflight, localStream,
                 capturePending, audioSettings, isInitialized, initLog,
                 acquisitionLog, attempted, pageVars, msgVars, initialQuality, roomVars, schedVars,
                 restartTimers, recognitionStarts, latest, reports,
                 arrivals, lastSampleAt, lastCommitAt, commitGap>>

(***************************************************************************)
(* WebRTCManager: local capture                                            *)
(***************************************************************************)
\* the variables the capture operations leave alone
pageHist == <<pageVars, msgVars, initialQuality, roomVars, schedVars, speechVars, latest, reports>>
timeHist == <<arrivals, lastSampleAt, lastCommitAt, commitGap>>

\* initialize(), at most cap calls in all: returns at once when initialized,
\* else setupLocalStream() asks for the current tier's constraints and awaits
\* the media devices
Initialize(cap) ==
  /\ Len(initLog) < cap
  /\ IF isInitialized
     THEN /\ initLog' = Append(initLog, [outcome |-> "resolved", ready |-> 0])
          /\ UNCHANGED <<capturePending, acquisitionLog>>
     ELSE /\ Len(acquisitionLog) < MaxAcquisitions
          /\ initLog' = Append(initLog, [outcome |-> "pending", ready |-> 0])
          /\ capturePending' = capturePending \cup
               {Pending("setupLocalStream", Len(initLog) + 1, Len(acquisitionLog) + 1,
                        getConstraints(currentTier), NoTrack)}
          /\ acquisitionLog' = Append(acquisitionLog,
               [op |-> "setupLocalStream", call |-> Len(initLog) + 1])
  /\ lastCall' = [op |-> "initialize", arg |-> Len(initLog) + 1]
  /\ emitted' = <<>>
  /\ UNCHANGED <<qmVars, now, meshVars, localStream, stopped, isListening,
                 audioSettings, isInitialized, attempted, pageHist, timeHist>>

\* the first getUserMedia of setupLocalStream resolves: the stream is kept,
\* onLocalStreamReady, isInitialized = true
SetupLocalStreamResolves(p) ==
  /\ p \in capturePending
  /\ p.op = "setupLocalStream"
  /\ capturePending' = capturePending \ {p}
  /\ localStream' = getUserMedia(p.src, p.constraints)
  /\ isInitialized' = TRUE
  /\ initLog' = [initLog EXCEPT ![p.call] =
                   [outcome |-> "resolved", ready |-> @.ready + 1]]
  /\ lastCall' = [op |-> "setupLocalStream", arg |-> p.call]
  /\ emitted' = <<Event("local-stream-ready", "", p.src)>>
  /\ UNCHANGED <<qmVars, now, meshVars, stopped, isListening, audioSettings,
                 acquisitionLog, attempted, pageHist, timeHist>>

\* the first getUserMedia of setupLocalStream rejects: the audio-only fallback
\* asks for { video: false, audio: true }
SetupLocalStreamFails(p) ==
  /\ p \in capturePending
  /\ p.op = "setupLocalStream"
  /\ capturePending' = (capturePending \ {p}) \cup
       {Pending("fallback", p.call, Len(acquisitionLog) + 1, AudioOnlyConstraints, NoTrack)}
  /\ acquisitionLog' = Append(acquisitionLog, [op |-> "fallback", call |-> p.call])
  /\ lastCall' = [op |-> "setupFailed", arg |-> p.call]
  /\ emitted' = <<>>
  /\ UNCHANGED <<qmVars, now, meshVars, localStream, stopped, isListening,
                 audioSettings, isInitialized, initLog, attempted, pageHist, timeHist>>

\* the fallback getUserMedia resolves: the stream is kept, setQuality('audio-only'),
\* onLocalStreamReady, isInitialized = true
FallbackResolves(p) ==
  /\ p \in capturePending
  /\ p.op = "fallback"
  /\ capturePending' = capturePending \ {p}
  /\ localStream' = getUserMedia(p.src, p.constraints)
  /\ currentTier' = setQualityTier(currentTier, "audio-only")
  /\ isInitialized' = TRUE
  /\ initLog' = [initLog EXCEPT ![p.call] =
                   [outcome |-> "resolved", ready |-> @.ready + 1]]
  /\ lastCall' = [op |-> "fallback", arg |-> p.call]
  /\ emitted' = setQualityEvents("audio-only") \o
                 <<Event("local-stream-ready", "", p.src)>>
  /\ UNCHANGED <<bandwidthHistory, stabilizationTimer, timers, now, meshVars,
                 stopped, isListening, audioSettings, acquisitionLog, attempted,
                 pageHist, timeHist>>

\* the fallback getUserMedia rejects: setupLocalStream throws, initialize() rejects
FallbackFailsRetries(p) ==
  /\ p \in capturePending
  /\ p.op = "fallback"
  /\ capturePending' = (capturePending \ {p}) \cup
       {Pending("fallback", p.call, Len(acquisitionLog) + 1, p.constraints, NoTrack)}
  /\ acquisitionLog' = Append(acquisitionLog, [op |-> "fallback", call |-> p.call])
  /\ lastCall' = [op |-> "fallbackFailed", arg |-> p.call]
  /\ emitted' = <<>>
  /\ UNCHANGED <<qmVars, now, meshVars, localStream, stopped, isListening,
                 audioSettings, isInitialized, initLog, attempted,
                 pageHist, timeHist>>
FallbackFails(p) ==
  /\ p \in capturePending
  /\ p.op = "fallback"
  /\ capturePending' = capturePending \ {p}
  /\ initLog' = [initLog EXCEPT ![p.call].outcome = "rejected"]
  /\ lastCall' = [op |-> "fallbackFailed", arg |-> p.call]
  /\ emitted' = <<>>
  /\ UNCHANGED <<qmVars, now, meshVars, localStream, stopped, isListening,
                 audioSettings, isInitialized, acquisitionLog, attempted,
                 pageHist, timeHist>>

\* WebRTCManager.adjustQuality(bandwidth) called by the application, at most cap
\* calls in all: updateBandwidth, then the capture source follows getCurrentTier()
AdjustQuality(bandwidth, cap) ==
  /\ Len(arrivals) < cap
  /\ UpdateBandwidthQM(bandwidth)
  /\ AdjustCapture(currentTier)
  /\ lastCall' = [op |-> "WebRTCManager.adjustQuality", arg |-> bandwidth]
  /\ emitted' = <<>>
  /\ UNCHANGED <<now, meshVars, isListening, audioSettings, isInitialized, initLog,
                 attempted, pageHist, lastCommitAt, commitGap>>

\* the connected connections of the peer table, in the order peers.forEach
\* visits them (insertion order, which is creation order)
RECURSIVE ForEachOrder(_)
ForEachOrder(connections) ==
  IF connections = {} THEN <<>>
  ELSE LET first == CHOOSE c \in connections : \A d \in connections : c <= d
       IN <<first>> \o ForEachOrder(connections \ {first})

ConnectedPeers == {peers[q] : q \in PeerIds} \cap {c \in 1..Len(conns) : conns[c].connected}

\* the prefix of order visited before an exception leaves the loop: up to and
\* including the first connection of throwing
VisitedUntilThrow(order, throwing) ==
  LET hits == {i \in 1..Len(order) : order[i] \in throwing}
  IN IF hits = {} THEN Range(order)
     ELSE {order[i] : i \in 1..(CHOOSE i \in hits : \A j \in hits : i <= j)}

\* the getUserMedia of restartVideoStream resolves: the new video track is added
\* to the local stream and replaceTrack is called on the connected peers in
\* turn; replaceTrack throws on the connections of throwing, and the first
\* exception leaves the forEach for the catch around the whole method
RestartVideoStreamResolves(p, throwing) ==
  /\ p \in capturePending
  /\ p.op = "restartVideoStream"
  /\ throwing \subseteq ConnectedPeers
  /\ capturePending' = capturePending \ {p}
  /\ LET newStream == getUserMedia(p.src, p.constraints)
         videoTrack == newStream.video[1]
         added == IF localStream.open
                  THEN [localStream EXCEPT !.video = Append(@, videoTrack)]
                  ELSE localStream
         oldTrack == IF added.video # <<>> THEN TrackId(added.video[1])
                     ELSE TrackId(videoTrack)
         visited == VisitedUntilThrow(ForEachOrder(ConnectedPeers), throwing)
     IN /\ localStream' = added
        /\ attempted' = visited
        /\ conns' = [c \in 1..Len(conns) |->
                       IF c \in visited \ throwing
                       THEN [conns[c] EXCEPT !.senders =
                               (@ \ {oldTrack}) \cup {TrackId(videoTrack)}]
                       ELSE conns[c]]
  /\ lastCall' = [op |-> "restartVideoStream", arg |-> p.src]
  /\ emitted' = <<>>
  /\ UNCHANGED <<qmVars, now, config, peers, intervals, inflight, stopped,
                 isListening, audioSettings, isInitialized, initLog, acquisitionLog,
                 pageHist, timeHist>>

\* the getUserMedia of restartVideoStream rejects: logged
RestartVideoStreamFails(p) ==
  /\ p \in capturePending
  /\ p.op = "restartVideoStream"
  /\ capturePending' = capturePending \ {p}
  /\ lastCall' = [op |-> "restartFailed", arg |-> p.src]
  /\ emitted' = <<>>
  /\ UNCHANGED <<qmVars, now, meshVars, localStream, stopped, isListening,
                 audioSettings, isInitialized, initLog, acquisitionLog, attempted,
                 pageHist, timeHist>>

\* videoTrack.applyConstraints(...) of applyVideoConstraints resolves (applied
\* is TRUE) or rejects (logged)
ApplyVideoConstraintsSettles(p, applied) ==
  /\ p \in capturePending
  /\ p.op = "applyVideoConstraints"
  /\ capturePending' = capturePending \ {p}
  /\ localStream' =
       IF applied
       THEN [localStream EXCEPT !.video =
               [i \in 1..Len(@) |->
                  IF TrackId(@[i]) = p.target
                  THEN [@[i] EXCEPT !.constraints = p.constraints.video]
                  ELSE @[i]]]
       ELSE localStream
  /\ lastCall' = [op |-> IF applied THEN "applyVideoConstraints" ELSE "applyFailed",
                  arg |-> p.constraints.video]
  /\ emitted' = <<>>
  /\ UNCHANGED <<qmVars, now, meshVars, stopped, isListening, audioSettings,
                 isInitialized, initLog, acquisitionLog, attempted, pageHist, timeHist>>

\* enableUltraLowBandwidthMode(): asks for the ultra-low constraints and awaits
EnableUltraLowBandwidthMode ==
  /\ Len(acquisitionLog) < MaxAcquisitions
  /\ capturePending' = capturePending \cup
       {Pending("enableUltraLowBandwidthMode", 0, Len(acquisitionLog) + 1,
                getUltraLowBandwidthConstraints, NoTrack)}
  /\ acquisitionLog' =
       Append(acquisitionLog, [op |-> "enableUltraLowBandwidthMode", call |-> 0])
  /\ lastCall' = [op |-> "enableUltraLowBandwidthMode", arg |-> Len(acquisitionLog) + 1]
  /\ emitted' = <<>>
  /\ UNCHANGED <<qmVars, now, meshVars, localStream, stopped, isListening,
                 audioSettings, isInitialized, initLog, attempted, pageHist, timeHist>>

\* RoomPage handleQualityChange(quality): setQuality on the page's own
\* QualityManager, setCurrentQuality, and for '144p' the manager's
\* enableUltraLowBandwidthMode()
HandleQualityChange(quality) ==
  /\ pageTier' = setQualityTier(pageTier, quality)
  /\ currentQuality' = quality
  /\ IF quality = "144p"
     THEN /\ Len(acquisitionLog) < MaxAcquisitions
          /\ capturePending' = capturePending \cup
               {Pending("enableUltraLowBandwidthMode", 0, Len(acquisitionLog) + 1,
                        getUltraLowBandwidthConstraints, NoTrack)}
          /\ acquisitionLog' =
               Append(acquisitionLog, [op |-> "enableUltraLowBandwidthMode", call |-> 0])
     ELSE UNCHANGED <<capturePending, acquisitionLog>>
  /\ lastCall' = [op |-> "handleQualityChange", arg |-> quality]
  /\ emitted' = <<>>
  /\ UNCHANGED <<qmVars, now, meshVars, localStream, stopped, isListening,
                 audioSettings, isInitialized, initLog, attempted,
                 connectionStats, effectBandwidth, msgVars, initialQuality, roomVars, schedVars, speechVars, latest, reports, timeHist>>

\* its getUserMedia resolves: the old tracks are stopped, the stream replaced,
\* setQuality('144p'), connected peers get streams = [newStream], the audio
\* processor clamps its bitrate, onLocalStreamReady
UltraLowResolves(p) ==
  /\ p \in capturePending
  /\ p.op = "enableUltraLowBandwidthMode"
  /\ capturePending' = capturePending \ {p}
  /\ stopped' = stopped \cup TrackIds(localStream.video) \cup TrackIds(localStream.audio)
  /\ localStream' = getUserMedia(p.src, p.constraints)
  /\ currentTier' = setQualityTier(currentTier, "144p")
  /\ conns' = [c \in 1..Len(conns) |->
                 IF c \in ConnectedPeers THEN [conns[c] EXCEPT !.streams = <<p.src>>]
                 ELSE conns[c]]
  /\ audioSettings' = [audioSettings EXCEPT !.bitrate = 64]
  /\ lastCall' = [op |-> "ultraLow", arg |-> p.src]
  /\ emitted' = setQualityEvents("144p") \o <<Event("local-stream-ready", "", p.src)>>
  /\ UNCHANGED <<bandwidthHistory, stabilizationTimer, timers, now, config, peers,
                 intervals, inflight, isListening, isInitialized, initLog,
                 acquisitionLog, attempted, pageHist, timeHist>>

UltraLowFailsStopsTracks(p) ==
  /\ p \in capturePending
  /\ p.op = "enableUltraLowBandwidthMode"
  /\ capturePending' = capturePending \ {p}
  /\ stopped' = stopped \cup TrackIds(localStream.video) \cup TrackIds(localStream.audio)
  /\ lastCall' = [op |-> "ultraLowFailed", arg |-> p.src]
  /\ emitted' = <<>>
  /\ UNCHANGED <<qmVars, now, meshVars, localStream, isListening,
                 audioSettings, isInitialized, initLog, acquisitionLog, attempted,
                 pageHist, timeHist>>

\* its getUserMedia rejects: logged
UltraLowFails(p) ==
  /\ p \in capturePending
  /\ p.op = "enableUltraLowBandwidthMode"
  /\ capturePending' = capturePending \ {p}
  /\ lastCall' = [op |-> "ultraLowFailed", arg |-> p.src]
  /\ emitted' = <<>>
  /\ UNCHANGED <<qmVars, now, meshVars, localStream, stopped, isListening,
                 audioSettings, isInitialized, initLog, acquisitionLog, attempted,
                 pageHist, timeHist>>

(***************************************************************************)
(* WebRTCManager: messages                                                 *)
(***************************************************************************)
\* a sendMessage/broadcastMessage call: the operation, the peer id addressed
\* ("": all), the connections of the table connected when the call started,
\* whether the call left by an exception
MessageCall(op, to, raised) ==
  [op |-> op, to |-> to, connected |-> ConnectedPeers, raised |-> raised]

\* the message of the next call: messages are numbered by call
NextMessage == Len(msgCalls) + 1

SendMessageWithoutConnectedCheck(peerId, throws, cap) ==
  /\ Len(msgCalls) < cap
  /\ LET connection == peers[peerId]
         sends == connection # 0
     IN /\ throws => sends
        /\ sendLog' = IF sends
                      THEN Append(sendLog, [msg |-> NextMessage, conn |-> connection,
                                            sent |-> ~throws])
                      ELSE sendLog
  /\ msgCalls' = Append(msgCalls, MessageCall("sendMessage", peerId, throws))
  /\ lastCall' = [op |-> "sendMessage", arg |-> peerId]
  /\ emitted' = <<>>
  /\ UNCHANGED <<qmVars, now, meshVars, captureVars, pageVars, initialQuality, roomVars, schedVars, speechVars, latest,
                 reports, arrivals, lastSampleAt, lastCommitAt, commitGap>>

\* sendMessage(peerId, message): peer.send on the table's connection of peerId
\* if there is one and it is connected, nothing otherwise; peer.send throws when
\* throws, and the exception leaves the call. At most cap messages in all.
SendMessage(peerId, throws, cap) ==
  /\ Len(msgCalls) < cap
  /\ LET connection == peers[peerId]
         sends == connection # 0 /\ conns[connection].connected
     IN /\ throws => sends
        /\ sendLog' = IF sends
                      THEN Append(sendLog, [msg |-> NextMessage, conn |-> connection,
                                            sent |-> ~throws])
                      ELSE sendLog
  /\ msgCalls' = Append(msgCalls, MessageCall("sendMessage", peerId, throws))
  /\ lastCall' = [op |-> "sendMessage", arg |-> peerId]
  /\ emitted' = <<>>
  /\ UNCHANGED <<qmVars, now, meshVars, captureVars, pageVars, initialQuality, roomVars, schedVars, speechVars, latest,
                 reports, arrivals, lastSampleAt, lastCommitAt, commitGap>>

\* broadcastMessage(message): peers.forEach calls peer.send on the connected
\* connections of the table in turn; peer.send throws on the connections of
\* throwing, and the first exception leaves the forEach and the call
BroadcastMessage(throwing, cap) ==
  /\ Len(msgCalls) < cap
  /\ throwing \subseteq ConnectedPeers
  /\ LET order == ForEachOrder(ConnectedPeers)
         visited == VisitedUntilThrow(order, throwing)
     IN sendLog' = sendLog \o [i \in 1..Cardinality(visited) |->
                                 [msg |-> NextMessage, conn |-> order[i],
                                  sent |-> order[i] \notin throwing]]
  /\ msgCalls' = Append(msgCalls, MessageCall("broadcastMessage", "", throwing # {}))
  /\ lastCall' = [op |-> "broadcastMessage", arg |-> 0]
  /\ emitted' = <<>>
  /\ UNCHANGED <<qmVars, now, meshVars, captureVars, pageVars, initialQuality, roomVars, schedVars, speechVars, latest,
                 reports, arrivals, lastSampleAt, lastCommitAt, commitGap>>

(***************************************************************************)
(* Room routes. Each route module of the source declares its own rooms and *)
(* joinRequests Map, as mock storage standing for a database; the routes   *)
(* are modelled over the one store they stand for.                         *)
(***************************************************************************)
NoRoom == [exists |-> FALSE, adminId |-> Nobody, requiresApproval |-> FALSE,
           maxParticipants |-> 0, participants |-> <<>>]
NoResponse == [status |-> 0, error |-> "", result |-> ""]
Response(status, error, result) == [status |-> status, error |-> error, result |-> result]

\* POST /api/rooms: a room with the given settings and no participants
CreateRoom(roomId, requiresApproval, maxParticipants) ==
  /\ ~rooms[roomId].exists
  /\ rooms' = [rooms EXCEPT ![roomId] =
                 [exists |-> TRUE, adminId |-> RoomAdmin,
                  requiresApproval |-> requiresApproval,
                  maxParticipants |-> maxParticipants, participants |-> <<>>]]
  /\ response' = Response(200, "", "created")
  /\ lastCall' = [op |-> "createRoom", arg |-> roomId]
  /\ emitted' = <<>>
  /\ UNCHANGED <<joinRequests, userCount, approvalCalls>>
  /\ UNCHANGED <<qmVars, now, meshVars, captureVars, pageVars, msgVars, initialQuality,
                 schedVars, speechVars, latest, reports, arrivals, lastSampleAt, lastCommitAt, commitGap>>

JoinRouteWithoutCapacityCheck(roomId, userRole) ==
  /\ userCount < MaxJoins
  /\ LET room == rooms[roomId]
         user == [id |-> userCount + 1, role |-> userRole]
     IN IF ~room.exists
        THEN /\ response' = Response(404, "Room not found", "")
             /\ UNCHANGED <<rooms, joinRequests, userCount>>
        ELSE IF userRole = "admin" \/ ~room.requiresApproval
        THEN /\ rooms' = [rooms EXCEPT ![roomId].participants = Append(@, user)]
             /\ userCount' = userCount + 1
             /\ response' = Response(200, "", "approved")
             /\ UNCHANGED joinRequests
        ELSE /\ joinRequests' = [joinRequests EXCEPT ![roomId] =
                  Append(@, [id |-> userCount + 1, userId |-> user.id, status |-> "pending"])]
             /\ userCount' = userCount + 1
             /\ response' = Response(200, "", "pending")
             /\ UNCHANGED rooms
  /\ lastCall' = [op |-> "join", arg |-> userRole]
  /\ emitted' = <<>>
  /\ UNCHANGED approvalCalls
  /\ UNCHANGED <<qmVars, now, meshVars, captureVars, pageVars, msgVars, initialQuality,
                 schedVars, speechVars, latest, reports, arrivals, lastSampleAt, lastCommitAt, commitGap>>

\* POST /api/rooms/[id]/join with a user name: 404 without the room, 400 at
\* capacity, else a user object is created; an admin, or anyone when the room
\* needs no approval, becomes a participant at once, others leave a pending
\* join request (user ids and request ids are fresh)
JoinRoute(roomId, userRole) ==
  /\ userCount < MaxJoins
  /\ LET room == rooms[roomId]
         user == [id |-> userCount + 1, role |-> userRole]
     IN IF ~room.exists
        THEN /\ response' = Response(404, "Room not found", "")
             /\ UNCHANGED <<rooms, joinRequests, userCount>>
        ELSE IF Len(room.participants) >= room.maxParticipants
        THEN /\ response' = Response(400, "Room is at capacity", "")
             /\ UNCHANGED <<rooms, joinRequests, userCount>>
        ELSE IF userRole = "admin" \/ ~room.requiresApproval
        THEN /\ rooms' = [rooms EXCEPT ![roomId].participants = Append(@, user)]
             /\ userCount' = userCount + 1
             /\ response' = Response(200, "", "approved")
             /\ UNCHANGED joinRequests
        ELSE /\ joinRequests' = [joinRequests EXCEPT ![roomId] =
                  Append(@, [id |-> userCount + 1, userId |-> user.id, status |-> "pending"])]
             /\ userCount' = userCount + 1
             /\ response' = Response(200, "", "pending")
             /\ UNCHANGED rooms
  /\ lastCall' = [op |-> "join", arg |-> userRole]
  /\ emitted' = <<>>
  /\ UNCHANGED approvalCalls
  /\ UNCHANGED <<qmVars, now, meshVars, captureVars, pageVars, msgVars, initialQuality,
                 schedVars, speechVars, latest, reports, arrivals, lastSampleAt, lastCommitAt, commitGap>>

\* roomRequests.findIndex(req => req.id === requestId): 0 for -1
FindRequest(roomRequests, requestId) ==
  LET hits == {i \in 1..Len(roomRequests) : roomRequests[i].id = requestId}
  IN IF hits = {} THEN 0 ELSE CHOOSE i \in hits : \A j \in hits : i <= j

\* roomRequests.splice(index, 1)
Splice(roomRequests, index) ==
  SubSeq(roomRequests, 1, index - 1) \o SubSeq(roomRequests, index + 1, Len(roomRequests))

\* POST /api/rooms/[id]/approve { requestId, action, adminId }
ApproveRoute(roomId, requestId, action, adminId) ==
  /\ approvalCalls < MaxApprovals
  /\ approvalCalls' = approvalCalls + 1
  /\ LET room == rooms[roomId]
         isAdmin == \/ room.adminId = adminId
                    \/ \E i \in 1..Len(room.participants) :
                         room.participants[i].id = adminId /\ room.participants[i].role = "admin"
         roomRequests == joinRequests[roomId]
         requestIndex == FindRequest(roomRequests, requestId)
     IN IF ~room.exists
        THEN /\ response' = Response(404, "Room not found", "")
             /\ UNCHANGED <<rooms, joinRequests>>
        ELSE IF ~isAdmin
        THEN /\ response' = Response(403, "Insufficient permissions", "")
             /\ UNCHANGED <<rooms, joinRequests>>
        ELSE IF requestIndex = 0
        THEN /\ response' = Response(404, "Join request not found", "")
             /\ UNCHANGED <<rooms, joinRequests>>
        ELSE IF action = "approve"
        THEN IF Len(room.participants) >= room.maxParticipants
             THEN /\ response' = Response(400, "Room is at capacity", "")
                  /\ UNCHANGED <<rooms, joinRequests>>
             ELSE /\ rooms' = [rooms EXCEPT ![roomId].participants =
                         Append(@, [id |-> roomRequests[requestIndex].userId,
                                    role |-> "participant"])]
                  /\ joinRequests' = [joinRequests EXCEPT ![roomId][requestIndex].status =
                                        "approved"]
                  /\ response' = Response(200, "", "approved")
        ELSE /\ joinRequests' = [joinRequests EXCEPT ![roomId] = Splice(@, requestIndex)]
             /\ response' = Response(200, "", "denied")
             /\ UNCHANGED rooms
  /\ lastCall' = [op |-> action, arg |-> requestId]
  /\ emitted' = <<>>
  /\ UNCHANGED userCount
  /\ UNCHANGED <<qmVars, now, meshVars, captureVars, pageVars, msgVars, initialQuality,
                 schedVars, speechVars, latest, reports, arrivals, lastSampleAt, lastCommitAt, commitGap>>

(***************************************************************************)
(* AttendanceScheduler                                                     *)
(***************************************************************************)
restOfScheduler == <<qmVars, now, meshVars, captureVars, pageVars, msgVars, initialQuality,
                     roomVars, speechVars, latest, reports, arrivals, lastSampleAt,
                     lastCommitAt, commitGap>>

\* cron.schedule(pattern, callback, {scheduled: true})
CronJob(kind, roomId, schedule, hasEndTime) ==
  [kind |-> kind, roomId |-> roomId, schedule |-> schedule, hasEndTime |-> hasEndTime,
   destroyed |-> FALSE]

\* task.destroy() on every task of the set
DestroyJobs(jobs, targets) ==
  [j \in 1..Len(jobs) |-> IF j \in targets THEN [jobs[j] EXCEPT !.destroyed = TRUE]
                          ELSE jobs[j]]

\* scheduleAttendanceTracking(schedule): a start task is created and stored
\* under the room id, over whatever task was stored there
ScheduleAttendanceTracking(roomId, hasEndTime) ==
  /\ Len(cronJobs) < MaxJobs
  /\ cronJobs' = Append(cronJobs, CronJob("start", roomId, scheduleCount + 1, hasEndTime))
  /\ scheduledJobs' = [scheduledJobs EXCEPT ![roomId] = Len(cronJobs) + 1]
  /\ scheduleCount' = scheduleCount + 1
  /\ lastCall' = [op |-> "scheduleAttendanceTracking", arg |-> 0]
  /\ emitted' = <<>>
  /\ UNCHANGED <<activeTracking, cancelMark>>
  /\ UNCHANGED restOfScheduler

\* a cron task that was not destroyed fires. A start task runs
\* startAttendanceTracking(schedule): the schedule becomes the room's active
\* tracking and, when it has an endTime, an end task is created and stored
\* nowhere. An end task runs stopAttendanceTracking(roomId).
CronJobFires(j) ==
  /\ j \in 1..Len(cronJobs)
  /\ ~cronJobs[j].destroyed
  /\ LET job == cronJobs[j]
     IN IF job.kind = "start"
        THEN /\ job.hasEndTime => Len(cronJobs) < MaxJobs
             /\ activeTracking' = [activeTracking EXCEPT ![job.roomId] = job.schedule]
             /\ cronJobs' = IF job.hasEndTime
                            THEN Append(cronJobs, CronJob("end", job.roomId, job.schedule, TRUE))
                            ELSE cronJobs
        ELSE /\ activeTracking' = [activeTracking EXCEPT ![job.roomId] = 0]
             /\ UNCHANGED cronJobs
  /\ lastCall' = [op |-> "cronJob", arg |-> j]
  /\ emitted' = <<>>
  /\ UNCHANGED <<scheduledJobs, scheduleCount, cancelMark>>
  /\ UNCHANGED restOfScheduler

\* cancelSchedule(roomId): the task stored under the room id is destroyed and
\* forgotten, and an active tracking of the room is stopped
CancelSchedule(roomId) ==
  /\ cronJobs' = DestroyJobs(cronJobs, {scheduledJobs[roomId]} \ {0})
  /\ scheduledJobs' = [scheduledJobs EXCEPT ![roomId] = 0]
  /\ activeTracking' = [activeTracking EXCEPT ![roomId] = 0]
  /\ cancelMark' = [cancelMark EXCEPT ![roomId] = Len(cronJobs)]
  /\ lastCall' = [op |-> "cancelSchedule", arg |-> 0]
  /\ emitted' = <<>>
  /\ UNCHANGED scheduleCount
  /\ UNCHANGED restOfScheduler

\* AttendanceScheduler.dispose(): the stored tasks are destroyed, both maps
\* are cleared
DisposeScheduler ==
  /\ cronJobs' = DestroyJobs(cronJobs, {scheduledJobs[r] : r \in RoomIds} \ {0})
  /\ scheduledJobs' = [r \in RoomIds |-> 0]
  /\ activeTracking' = [r \in RoomIds |-> 0]
  /\ cancelMark' = [r \in RoomIds |-> Len(cronJobs)]
  /\ lastCall' = [op |-> "disposeScheduler", arg |-> 0]
  /\ emitted' = <<>>
  /\ UNCHANGED scheduleCount
  /\ UNCHANGED restOfScheduler

(***************************************************************************)
(* AudioProcessor: speech recognition. The recognition is "idle",          *)
(* "running", or "stopping" (asked to stop, its end event not yet          *)
(* delivered); start() on a recognition that is not idle throws.           *)
(***************************************************************************)
restOfSpeech == <<qmVars, now, meshVars, localStream, stopped, capturePending, audioSettings,
                  isInitialized, initLog, acquisitionLog, attempted, pageVars, msgVars,
                  initialQuality, roomVars, schedVars, latest, reports, arrivals,
                  lastSampleAt, lastCommitAt, commitGap>>

\* startSpeechToText(): nothing when listening; else listening is switched on
\* and the recognition started, and switched off again when start() throws
StartSpeechToText ==
  /\ recognitionStarts < MaxRecognitionStarts
  /\ IF isListening
     THEN UNCHANGED <<isListening, recognition, recognitionStarts>>
     ELSE IF recognition = "idle"
     THEN /\ isListening' = TRUE
          /\ recognition' = "running"
          /\ recognitionStarts' = recognitionStarts + 1
     ELSE /\ isListening' = FALSE
          /\ UNCHANGED <<recognition, recognitionStarts>>
  /\ lastCall' = [op |-> "startSpeechToText", arg |-> 0]
  /\ emitted' = <<>>
  /\ UNCHANGED restartTimers
  /\ UNCHANGED restOfSpeech

\* stopSpeechToText(): nothing unless listening; else listening is switched
\* off and the recognition asked to stop
StopSpeechToText ==
  /\ IF isListening
     THEN /\ isListening' = FALSE
          /\ recognition' = RecognitionStop(recognition)
     ELSE UNCHANGED <<isListening, recognition>>
  /\ lastCall' = [op |-> "stopSpeechToText", arg |-> 0]
  /\ emitted' = <<>>
  /\ UNCHANGED <<restartTimers, recognitionStarts>>
  /\ UNCHANGED restOfSpeech

\* recognition.onend: the recognition has ended, after stop() or by itself;
\* while listening a restart is scheduled 100 ms ahead
RecognitionEnds ==
  /\ recognition \in {"running", "stopping"}
  /\ isListening => restartTimers < MaxRestartTimers
  /\ recognition' = "idle"
  /\ restartTimers' = IF isListening THEN restartTimers + 1 ELSE restartTimers
  /\ lastCall' = [op |-> "onend", arg |-> 0]
  /\ emitted' = <<>>
  /\ UNCHANGED <<isListening, recognitionStarts>>
  /\ UNCHANGED restOfSpeech

\* the restart timeout fires: () => this.recognition.start()
RestartTimerFires ==
  /\ restartTimers > 0
  /\ recognition = "idle" => recognitionStarts < MaxRecognitionStarts
  /\ restartTimers' = restartTimers - 1
  /\ recognition' = IF recognition = "idle" THEN "running" ELSE recognition
  /\ recognitionStarts' = IF recognition = "idle" THEN recognitionStarts + 1
                          ELSE recognitionStarts
  /\ lastCall' = [op |-> "restartTimer", arg |-> 0]
  /\ emitted' = <<>>
  /\ UNCHANGED isListening
  /\ UNCHANGED restOfSpeech

\* AudioProcessor.dispose(): stopSpeechToText(); no audio context or recorder
\* is open
DisposeAudioProcessor ==
  /\ IF isListening
     THEN /\ isListening' = FALSE
          /\ recognition' = RecognitionStop(recognition)
     ELSE UNCHANGED <<isListening, recognition>>
  /\ lastCall' = [op |-> "disposeAudioProcessor", arg |-> 0]
  /\ emitted' = <<>>
  /\ UNCHANGED <<restartTimers, recognitionStarts>>
  /\ UNCHANGED restOfSpeech

(***************************************************************************)
(* Initial states                                                          *)
(***************************************************************************)
\* the state after construction with config.maxPeers = maxPeers and a
\* QualityManager constructed with initialQuality
InitState(maxPeers, quality) ==
  /\ initialQuality = quality
  /\ rooms = [r \in RoomIds |-> NoRoom]
  /\ cronJobs = <<>>
  /\ scheduledJobs = [r \in RoomIds |-> 0]
  /\ activeTracking = [r \in RoomIds |-> 0]
  /\ scheduleCount = 0
  /\ cancelMark = [r \in RoomIds |-> 0]
  /\ recognition = "idle"
  /\ restartTimers = 0
  /\ recognitionStarts = 0
  /\ joinRequests = [r \in RoomIds |-> <<>>]
  /\ response = NoResponse
  /\ userCount = 0
  /\ approvalCalls = 0
  /\ currentTier = InitialTier(quality)
  /\ bandwidthHistory = <<>>
  /\ stabilizationTimer = NoTimer
  /\ timers = {}
  /\ now = 0
  /\ config = [maxPeers |-> maxPeers]
  /\ peers = [p \in PeerIds |-> 0]
  /\ conns = <<>>
  /\ intervals = {}
  /\ inflight = {}
  /\ localStream = NoStream
  /\ stopped = {}
  /\ capturePending = {}
  /\ isListening = FALSE
  /\ audioSettings = [bitrate |-> 192]
  /\ isInitialized = FALSE
  /\ initLog = <<>>
  /\ acquisitionLog = <<>>
  /\ attempted = {}
  /\ connectionStats = [bandwidth |-> 0, latency |-> 0, quality |-> "good"]
  /\ currentQuality = "720p"
  /\ effectBandwidth = 0
  /\ pageTier = InitialTier("720p")
  /\ latest = [c \in 1..MaxConns |-> 0]
  /\ reports = 0
  /\ arrivals = <<>>
  /\ lastSampleAt = 0
  /\ lastCommitAt = -1
  /\ commitGap = -1
  /\ sendLog = <<>>
  /\ msgCalls = <<>>
  /\ lastCall = [op |-> "new", arg |-> 0]
  /\ emitted = <<>>

\* new QualityManager(): initialQuality defaults to '720p'
InitWith(maxPeers) == InitState(maxPeers, "720p")

InitQM == InitWith(MaxPeersConfig)

InitTable == \E maxPeers \in 1..MaxPeersConfig : InitWith(maxPeers)

InitMesh == InitWith(MaxPeersConfig)

(***************************************************************************)
(* Specifications                                                          *)
(***************************************************************************)
\* the controller under timed sample arrival and manual selection
NextQM ==
  \/ \E b \in Bandwidths : UpdateBandwidth(b, MaxTimedSamples)
  \/ \E t \in timers : StabilizationTimerFires(t)
  \/ \E q \in VideoQuality : SetQuality(q)
  \/ Tick(MaxTicks)

SpecQM == InitQM /\ [][NextQM]_vars

\* the controller's sample window over more samples than it holds
NextWindow ==
  \/ \E b \in Bandwidths : UpdateBandwidth(b, MaxWindowSamples)
  \/ \E t \in timers : StabilizationTimerFires(t)
  \/ Tick(MaxWindowTicks)

SpecWindow == InitQM /\ [][NextWindow]_vars

\* the peer table: creation, removal, connection events and teardown
NextTable ==
  \/ \E p \in PeerIds, isInitiator \in BOOLEAN : CreatePeer(p, isInitiator, MaxConns)
  \/ \E p \in PeerIds : RemovePeer(p)
  \/ \E c \in 1..Len(conns) : PeerConnects(c)
  \/ \E c \in 1..Len(conns) : PeerErrors(c)
  \/ \E c \in 1..Len(conns) : PeerClosesRemotely(c)
  \/ \E c \in 1..Len(conns) : PeerCloseEvent(c)
  \/ Dispose

SpecTable == InitTable /\ [][NextTable]_vars

\* the peer mesh, its samplers and the page's bandwidth feed; the samplers do not
\* read the role flag or config.maxPeers, which are fixed here
NextMesh ==
  \/ \E p \in PeerIds : CreatePeer(p, TRUE, MaxConns)
  \/ \E p \in PeerIds : RemovePeer(p)
  \/ \E c \in 1..Len(conns) : PeerConnects(c)
  \/ \E c \in 1..Len(conns) : PeerErrors(c)
  \/ \E c \in 1..Len(conns) : PeerClosesRemotely(c)
  \/ \E c \in 1..Len(conns) : PeerCloseEvent(c)
  \/ \E iv \in intervals : SamplerFires(iv)
  \/ \E iv \in inflight, stats \in getConnectionStats : SamplerReports(iv, stats)
  \/ \E iv \in inflight : SamplerQueryFails(iv)
  \/ QualityEffect
  \/ Dispose

SpecMesh == InitMesh /\ [][NextMesh]_vars

\* capture set-up by initialize() with its audio-only fallback, ultra-low mode
\* and teardown
NextInit ==
  \/ Initialize(MaxInitCalls)
  \/ \E p \in capturePending : SetupLocalStreamResolves(p)
  \/ \E p \in capturePending : SetupLocalStreamFails(p)
  \/ \E p \in capturePending : FallbackResolves(p)
  \/ \E p \in capturePending : FallbackFails(p)
  \/ EnableUltraLowBandwidthMode
  \/ \E p \in capturePending : UltraLowResolves(p)
  \/ \E p \in capturePending : UltraLowFails(p)
  \/ Dispose

SpecInit == InitQM /\ [][NextInit]_vars

\* the session without peers: capture set-up, reconfiguration by adjustQuality,
\* the debounce timer and teardown
NextCapture ==
  \/ Initialize(MaxSessionInitCalls)
  \/ \E p \in capturePending : SetupLocalStreamResolves(p)
  \/ \E p \in capturePending : SetupLocalStreamFails(p)
  \/ \E p \in capturePending : FallbackResolves(p)
  \/ \E p \in capturePending : FallbackFails(p)
  \/ \E b \in Bandwidths : AdjustQuality(b, MaxSessionSamples)
  \/ \E t \in timers : StabilizationTimerFires(t)
  \/ Tick(MaxSessionTicks)
  \/ \E p \in capturePending : RestartVideoStreamResolves(p, {})
  \/ \E p \in capturePending : RestartVideoStreamFails(p)
  \/ \E p \in capturePending, applied \in BOOLEAN : ApplyVideoConstraintsSettles(p, applied)
  \/ Dispose

SpecCapture == InitQM /\ [][NextCapture]_vars

\* the fan-out of a re-acquired video track to the peers of the mesh
NextFanout ==
  \/ Initialize(MaxSessionInitCalls)
  \/ \E p \in capturePending : SetupLocalStreamResolves(p)
  \/ \E p \in capturePending : SetupLocalStreamFails(p)
  \/ \E p \in capturePending : FallbackResolves(p)
  \/ \E p \in capturePending : FallbackFails(p)
  \/ \E b \in FanoutBandwidths : AdjustQuality(b, MaxSessionSamples)
  \/ \E t \in timers : StabilizationTimerFires(t)
  \/ Tick(MaxSessionTicks)
  \/ \E p \in capturePending, throwing \in SUBSET (1..Len(conns)) :
       RestartVideoStreamResolves(p, throwing)
  \/ \E p \in capturePending : RestartVideoStreamFails(p)
  \/ \E p \in capturePending, applied \in BOOLEAN : ApplyVideoConstraintsSettles(p, applied)
  \/ \E q \in PeerIds : CreatePeer(q, TRUE, MaxConns)
  \/ \E c \in 1..Len(conns) : PeerConnects(c)

SpecFanout == InitQM /\ [][NextFanout]_vars

\* messages over the peer table while connections are made and closed
NextMessages ==
  \/ \E p \in PeerIds : CreatePeer(p, TRUE, MaxConns)
  \/ \E c \in 1..Len(conns) : PeerConnects(c)
  \/ \E c \in 1..Len(conns) : PeerClosesRemotely(c)
  \/ \E c \in 1..Len(conns) : PeerCloseEvent(c)
  \/ \E p \in PeerIds, throws \in BOOLEAN : SendMessage(p, throws, MaxMessages)
  \/ \E throwing \in SUBSET (1..Len(conns)) : BroadcastMessage(throwing, MaxMessages)

SpecMessages == InitMesh /\ [][NextMessages]_vars

\* the session around the 144p tier: selected by the debounce timer or by hand
NextUltraLow ==
  \/ Initialize(MaxSessionInitCalls)
  \/ \E p \in capturePending : SetupLocalStreamResolves(p)
  \/ \E p \in capturePending : SetupLocalStreamFails(p)
  \/ \E p \in capturePending : FallbackResolves(p)
  \/ \E p \in capturePending : FallbackFails(p)
  \/ \E b \in UltraLowBandwidths : AdjustQuality(b, MaxSessionSamples)
  \/ \E t \in timers : StabilizationTimerFires(t)
  \/ Tick(MaxSessionTicks)
  \/ \E p \in capturePending : RestartVideoStreamResolves(p, {})
  \/ \E p \in capturePending : RestartVideoStreamFails(p)
  \/ \E p \in capturePending, applied \in BOOLEAN : ApplyVideoConstraintsSettles(p, applied)
  \/ \E q \in ManualSelections : HandleQualityChange(q)
  \/ \E p \in capturePending : UltraLowResolves(p)
  \/ \E p \in capturePending : UltraLowFails(p)

SpecUltraLow == InitQM /\ [][NextUltraLow]_vars

\* adjustQuality calls that overlap the re-acquisition of the video track
NextOverlap ==
  \/ Initialize(MaxSessionInitCalls)
  \/ \E p \in capturePending : SetupLocalStreamResolves(p)
  \/ \E p \in capturePending : SetupLocalStreamFails(p)
  \/ \E p \in capturePending : FallbackResolves(p)
  \/ \E p \in capturePending : FallbackFails(p)
  \/ \E b \in FanoutBandwidths : AdjustQuality(b, MaxOverlapSamples)
  \/ \E t \in timers : StabilizationTimerFires(t)
  \/ Tick(MaxSessionTicks)
  \/ \E p \in capturePending : RestartVideoStreamResolves(p, {})
  \/ \E p \in capturePending : RestartVideoStreamFails(p)
  \/ \E p \in capturePending, applied \in BOOLEAN : ApplyVideoConstraintsSettles(p, applied)

SpecOverlap == InitQM /\ [][NextOverlap]_vars

\* the ultra-low bandwidth mode over a mesh of connected and signaling peers,
\* acquisitions being started one at a time
NextStreams ==
  \/ capturePending = {} /\ Initialize(MaxSessionInitCalls)
  \/ \E p \in capturePending : SetupLocalStreamResolves(p)
  \/ \E q \in PeerIds : CreatePeer(q, TRUE, MaxConns)
  \/ \E c \in 1..Len(conns) : PeerConnects(c)
  \/ capturePending = {} /\ EnableUltraLowBandwidthMode
  \/ \E p \in capturePending : UltraLowResolves(p)
  \/ \E p \in capturePending : UltraLowFails(p)

SpecStreams == InitQM /\ [][NextStreams]_vars

\* the controller constructed with and set to arbitrary quality names
InitNames == \E q \in QualityNames : InitState(MaxPeersConfig, q)

NextNames ==
  \/ \E b \in Bandwidths : UpdateBandwidth(b, MaxTimedSamples)
  \/ \E t \in timers : StabilizationTimerFires(t)
  \/ \E q \in QualityNames : SetQuality(q)
  \/ Tick(MaxTicks)

SpecNames == InitNames /\ [][NextNames]_vars

\* the attendance scheduler
NextScheduler ==
  \/ \E r \in RoomIds, hasEndTime \in BOOLEAN : ScheduleAttendanceTracking(r, hasEndTime)
  \/ \E j \in 1..MaxJobs : CronJobFires(j)
  \/ \E r \in RoomIds : CancelSchedule(r)
  \/ DisposeScheduler

SpecScheduler == InitQM /\ [][NextScheduler]_vars

\* the speech recognition of the audio processor
NextSpeech ==
  \/ StartSpeechToText
  \/ StopSpeechToText
  \/ RecognitionEnds
  \/ RestartTimerFires
  \/ DisposeAudioProcessor

SpecSpeech == InitQM /\ [][NextSpeech]_vars

\* the room routes
NextRooms ==
  \/ \E r \in RoomIds, requiresApproval \in BOOLEAN, maxParticipants \in 1..MaxCapacity :
       CreateRoom(r, requiresApproval, maxParticipants)
  \/ \E r \in RoomIds, userRole \in {"admin", "participant"} : JoinRoute(r, userRole)
  \/ \E r \in RoomIds, requestId \in 1..MaxJoins, action \in {"approve", "deny"},
        adminId \in {RoomAdmin, Nobody} \cup (1..MaxJoins) :
       ApproveRoute(r, requestId, action, adminId)

SpecRooms == InitQM /\ [][NextRooms]_vars

\* the samplers of the connections alone
NextSampler ==
  \/ \E p \in PeerIds : CreatePeer(p, TRUE, MaxConns)
  \/ \E c \in 1..Len(conns) : PeerConnects(c)
  \/ \E c \in 1..Len(conns) : PeerClosesRemotely(c)
  \/ \E c \in 1..Len(conns) : PeerCloseEvent(c)
  \/ \E iv \in intervals : SamplerFires(iv)
  \/ \E iv \in inflight, stats \in getConnectionStats : SamplerReports(iv, stats)
  \/ \E iv \in inflight : SamplerQueryFails(iv)

SpecSampler == InitMesh /\ [][NextSampler]_vars

\* the controller under steady bandwidth, with manual selection
NextSteady ==
  \/ \E b \in SteadyBandwidths : UpdateBandwidth(b, MaxTimedSamples)
  \/ \E t \in timers : StabilizationTimerFires(t)
  \/ \E q \in VideoQuality : SetQuality(q)
  \/ Tick(MaxTicks)

SpecSteady == InitQM /\ [][NextSteady]_vars

(***************************************************************************)
(* Properties of the quality controller                                    *)
(***************************************************************************)
\* C2: two consecutive tier changes committed by the stabilization timer are at
\* least 2000 ms apart, however fast the samples arrive.
C2_CommitsDebounced == commitGap # -1 => commitGap >= DebounceMs

\* two timer commits exactly one debounce period apart
C2_Witness ==
  /\ lastCall.op = "adjustQuality"
  /\ emitted # <<>>
  /\ commitGap = DebounceMs

\* C4: at most one stabilization timeout is pending; it belongs to the last
\* updateBandwidth call and is due 2000 ms after it, and when the evaluation has
\* run (not before that time) no other evaluation is left pending.
C4_SingleDebounceTimer ==
  /\ Cardinality(timers) <= 1
  /\ \A t \in timers :
       /\ t.id = stabilizationTimer
       /\ t.deadline = lastSampleAt + DebounceMs
  /\ lastCall.op = "adjustQuality" =>
       /\ timers = {}
       /\ now >= lastSampleAt + DebounceMs

\* a burst of calls at 0 or 1000 and 1000, evaluated once at 3000
C4_Witness ==
  /\ lastCall.op = "adjustQuality"
  /\ Len(arrivals) >= 2
  /\ lastSampleAt = TickMs
  /\ now = lastSampleAt + DebounceMs
  /\ timers = {}

\* the last n elements of s
LastN(s, n) == SubSeq(s, Len(s) - n + 1, Len(s))

\* C5: the window holds at most 10 samples and is always the last min(n, 10)
\* samples passed to updateBandwidth, in arrival order.
C5_WindowIsLastTen ==
  /\ Len(bandwidthHistory) <= HistorySize
  /\ bandwidthHistory =
       LastN(arrivals, IF Len(arrivals) < HistorySize THEN Len(arrivals) ELSE HistorySize)

\* the eleventh sample has pushed a different oldest sample out
C5_Witness ==
  /\ lastCall.op = "updateBandwidth"
  /\ Len(arrivals) > HistorySize
  /\ Len(bandwidthHistory) = HistorySize
  /\ Head(arrivals) # Head(bandwidthHistory)

\* the tiers whose total bandwidth is at most 0.8 * mean(window)
Affordable(window) ==
  {i \in 1..Len(QUALITY_TIERS) :
     10 * QUALITY_TIERS[i].totalBandwidth * Len(window) <= 8 * SumSeq(window)}

\* the richest affordable tier, else the audio-only floor
SelectedTier(window) ==
  IF Affordable(window) = {} THEN QUALITY_TIERS[Len(QUALITY_TIERS)]
  ELSE QUALITY_TIERS[CHOOSE i \in Affordable(window) :
         \A j \in Affordable(window) :
           QUALITY_TIERS[i].totalBandwidth >= QUALITY_TIERS[j].totalBandwidth]

\* C3: when the stabilization timer has fired, the current tier is the richest
\* tier with total bandwidth <= 0.8 * mean(window), audio-only if there is none;
\* it is a function of the window contents alone.
C3_EvaluationSelectsByWindow ==
  lastCall.op = "adjustQuality" =>
    /\ Len(bandwidthHistory) \in 1..HistorySize
    /\ currentTier = SelectedTier(bandwidthHistory)

\* a full window of mixed samples evaluated to a tier strictly inside the catalog
C3_Witness ==
  /\ lastCall.op = "adjustQuality"
  /\ Len(bandwidthHistory) = HistorySize
  /\ currentTier.name = "144p"
  /\ emitted # <<>>

\* C6: after setQuality(T) for a tier T of the catalog, the current tier is
\* exactly the catalog entry named T.
C6_SetQualityThenGet ==
  lastCall.op = "setQuality" =>
    \E i \in 1..Len(QUALITY_TIERS) :
      /\ QUALITY_TIERS[i].name = lastCall.arg
      /\ currentTier = QUALITY_TIERS[i]

\* a manual selection made over a non-empty window with the timer pending
C6_Witness ==
  /\ lastCall.op = "setQuality"
  /\ lastCall.arg = "1080p"
  /\ currentTier.totalBandwidth = 2328
  /\ timers # {}
  /\ bandwidthHistory = <<10>>

(***************************************************************************)
(* Properties of the peer mesh                                             *)
(***************************************************************************)
\* the connections that are connected and have reported a sample
ConnectedSampled == {c \in 1..Len(conns) : conns[c].connected /\ latest[c] # 0}

C8_SamplerExactlyWhileConnected ==
  \A c \in 1..Len(conns) :
    (\E iv \in intervals : iv.conn = c) <=> conns[c].connected

\* the live connections of a peer identifier
Live(p) == {c \in 1..Len(conns) : conns[c].id = p /\ ~conns[c].destroyed}

\* C9: a peer identifier never has more than one live connection, and after
\* createPeer(id) the table maps id to the new connection, every earlier
\* connection of id being destroyed.
C9_OneLiveConnectionPerPeer ==
  /\ \A p \in PeerIds : Cardinality(Live(p)) <= 1
  /\ \A p \in PeerIds : peers[p] # 0 => conns[peers[p]].id = p
  /\ lastCall.op = "createPeer" =>
       /\ peers[lastCall.arg] = Len(conns)
       /\ Live(lastCall.arg) = {Len(conns)}

\* createPeer on an identifier whose connected connection it has destroyed
C9_Witness ==
  /\ lastCall.op = "createPeer"
  /\ Len(conns) = 2
  /\ conns[1].id = conns[2].id
  /\ conns[1].destroyed
  /\ conns[1].closePending
  /\ \E iv \in intervals : iv.conn = 1

\* C10: the peer table never holds more than config.maxPeers connections.
C10_TableWithinMaxPeers ==
  Cardinality({p \in PeerIds : peers[p] # 0}) <= config.maxPeers

(***************************************************************************)
(* Properties of the session: capture, fan-out, errors and teardown        *)
(***************************************************************************)
\* C11: when a new video track is pushed to the mesh, replaceTrack is attempted
\* on every connected peer, also when it throws on one of them.
C11_ReplacementOnEveryConnectedPeer ==
  lastCall.op = "restartVideoStream" => attempted = ConnectedPeers

\* the step of a connection's 'error' event: that connection is destroyed and a
\* peer-error event is emitted for its id; nothing else changes
C12_ErrorStep ==
  lastCall'.op = "error" =>
    LET c == lastCall'.arg
    IN /\ ~conns[c].destroyed
       /\ conns'[c].destroyed
       /\ ~conns'[c].connected
       /\ emitted' = <<Event("peer-error", conns[c].id, 0)>>
       /\ Len(conns') = Len(conns)
       /\ \A d \in 1..Len(conns) : d # c => conns'[d] = conns[d]
       /\ peers' = peers
       /\ intervals' = intervals

\* the step of its 'close' event: its id has no table entry any more; the
\* entries and connections of the other ids and the samplers are unchanged,
\* and so is every other connection when the table held the closed one
C12_CloseStep ==
  lastCall'.op = "close" =>
    LET c == lastCall'.arg
        id == conns[c].id
    IN /\ peers'[id] = 0
       /\ \A q \in PeerIds : q # id => peers'[q] = peers[q]
       /\ Len(conns') = Len(conns)
       /\ \A d \in 1..Len(conns) :
            (conns[d].id # id \/ (peers[id] = c /\ d # c)) => conns'[d] = conns[d]
       /\ intervals' = intervals

C13_TeardownRunsEveryStep ==
  lastCall.op = "dispose" =>
    /\ intervals = {}
    /\ \A c \in 1..Len(conns) : conns[c].destroyed
    /\ \A q \in PeerIds : peers[q] = 0
    /\ TrackIds(localStream.video) \cup TrackIds(localStream.audio) \subseteq stopped
    /\ ~isListening

\* C14: teardown cancels the controller's pending debounce timer: when dispose()
\* has run no stabilization timeout is left to fire and change the tier.
C14_TeardownCancelsDebounce ==
  lastCall.op = "dispose" => timers = {}

\* the getUserMedia calls that operation op made for initialize() call n
AcquisitionsOf(op, n) ==
  {k \in 1..Len(acquisitionLog) :
     acquisitionLog[k].op = op /\ acquisitionLog[k].call = n}

\* the positions of the local-stream-ready events among the emitted events
ReadyEvents(events) == {i \in 1..Len(events) : events[i].type = "local-stream-ready"}

\* C15: when the first acquisition of an initialize() call has failed, that call
\* has made exactly one audio-only attempt; when the attempt succeeds the
\* current tier is audio-only, the local stream is that audio-only stream and
\* exactly one local-stream-ready event, carrying it, is emitted.
C15_FallbackOnceToAudioOnly ==
  /\ \A n \in 1..Len(initLog) :
       /\ Cardinality(AcquisitionsOf("fallback", n)) <= 1
       /\ Cardinality(AcquisitionsOf("setupLocalStream", n)) <= 1
  /\ lastCall.op = "setupFailed" =>
       /\ Cardinality(AcquisitionsOf("fallback", lastCall.arg)) = 1
       /\ \E p \in capturePending :
            /\ p.op = "fallback"
            /\ p.call = lastCall.arg
            /\ p.constraints.video = ""
  /\ lastCall.op = "fallback" =>
       /\ currentTier = QUALITY_TIERS[Len(QUALITY_TIERS)]
       /\ currentTier.name = "audio-only"
       /\ localStream.open
       /\ localStream.video = <<>>
       /\ Len(localStream.audio) = 1
       /\ AcquisitionsOf("fallback", lastCall.arg) = {localStream.id}
       /\ Cardinality(ReadyEvents(emitted)) = 1
       /\ \A i \in ReadyEvents(emitted) : emitted[i].value = localStream.id
       /\ initLog[lastCall.arg] = [outcome |-> "resolved", ready |-> 1]
       /\ isInitialized

\* the fallback of the only initialize() call has just succeeded
C15_Witness ==
  /\ lastCall = [op |-> "fallback", arg |-> 1]
  /\ Len(initLog) = 1
  /\ Len(acquisitionLog) = 2
  /\ localStream.id = 2
  /\ currentTier.name = "audio-only"

\* the getUserMedia calls made for initialize() call n
InitAcquisitions(n) == AcquisitionsOf("setupLocalStream", n) \cup AcquisitionsOf("fallback", n)

\* C16: an initialize() call makes at most two acquisition attempts, the full
\* constraints and then audio-only; when both have failed the call is rejected
\* with no local-stream-ready event and nothing of it left pending, and while
\* every call so far was rejected the session is uninitialized, without a local
\* stream unless another operation acquired one.
C16_FallbackNotRetried ==
  /\ \A n \in 1..Len(initLog) :
       /\ Cardinality(InitAcquisitions(n)) <= 2
       /\ \A k \in AcquisitionsOf("fallback", n) :
            \E j \in AcquisitionsOf("setupLocalStream", n) : j < k
       /\ initLog[n].outcome = "rejected" =>
            /\ Cardinality(InitAcquisitions(n)) = 2
            /\ initLog[n].ready = 0
            /\ \A p \in capturePending : p.call # n
  /\ lastCall.op = "fallbackFailed" =>
       /\ initLog[lastCall.arg].outcome = "rejected"
       /\ emitted = <<>>
  /\ (Len(initLog) > 0 /\ \A n \in 1..Len(initLog) : initLog[n].outcome = "rejected") =>
       /\ ~isInitialized
       /\ Len(acquisitionLog) = 2 * Len(initLog) => localStream = NoStream

\* both acquisitions of the only initialize() call have failed
C16_Witness ==
  /\ lastCall = [op |-> "fallbackFailed", arg |-> 1]
  /\ Len(initLog) = 1
  /\ Len(acquisitionLog) = 2
  /\ ~isInitialized
  /\ localStream = NoStream
  /\ capturePending = {}

\* C17: when the debounce timer has committed tier T, the capture source is
\* reconfigured to T by that commit: no video for audio-only, a re-acquisition
\* under way when leaving audio-only, the constraints of T applied or being
\* applied otherwise.
C17_CommitReconfiguresCapture ==
  (lastCall.op = "adjustQuality" /\ emitted # <<>> /\ localStream.open) =>
    IF currentTier.name = "audio-only" THEN localStream.video = <<>>
    ELSE IF localStream.video = <<>>
    THEN \E p \in capturePending :
           p.op = "restartVideoStream" /\ p.constraints.video = currentTier.name
    ELSE \/ localStream.video[1].constraints = currentTier.name
         \/ \E p \in capturePending :
              p.op = "applyVideoConstraints" /\ p.constraints.video = currentTier.name

(***************************************************************************)
(* Properties of the controller's tier changes                             *)
(***************************************************************************)
\* C18: only the debounce timer commits a new tier: every change of the current
\* tier is the effect of a debounce-timer evaluation, and no other operation
\* (setQuality, the initialization fallback, enableUltraLowBandwidthMode)
\* changes it.
C18_OnlyTimerCommits ==
  [][currentTier' # currentTier => lastCall'.op = "adjustQuality"]_vars

\* C18 as amended: every change of the current tier is the effect of a
\* debounce-timer evaluation or of a setQuality call, made directly, by the
\* initialization fallback or by enableUltraLowBandwidthMode; recording a
\* sample and the passing of time change nothing of it.
C18_TimerOrSetQualityCommits ==
  [][currentTier' # currentTier =>
       lastCall'.op \in {"adjustQuality", "setQuality", "fallback", "ultraLow"}]_vars

\* a manual selection has changed the tier after the timer had committed one
C18_Witness ==
  /\ lastCall.op = "setQuality"
  /\ lastCommitAt >= 0
  /\ emitted # <<>>
  /\ currentTier.name = "144p"
  /\ bandwidthHistory = <<2950>>

\* C19: setQuality changes only the current tier: the sample window and the
\* pending debounce timer are left as they were, and an automatic evaluation
\* that fires afterwards selects from that window, whatever tier was set by hand.
C19_SetQualityKeepsWindowAndTimer ==
  [][/\ lastCall'.op = "setQuality" =>
          /\ bandwidthHistory' = bandwidthHistory
          /\ stabilizationTimer' = stabilizationTimer
          /\ timers' = timers
     /\ lastCall'.op = "adjustQuality" =>
          currentTier' = SelectedTier(bandwidthHistory)]_vars

\* the first automatic evaluation has moved the tier back to 720p, the initial
\* tier, which a manual selection had replaced
C19_Witness ==
  /\ lastCall.op = "adjustQuality"
  /\ emitted = <<QualityChanged(QUALITY_TIERS[2])>>
  /\ currentTier.name = "720p"
  /\ commitGap = -1
  /\ Len(bandwidthHistory) = 3

\* the positions of the tier-change events among the emitted events
TierEvents(events) == {i \in 1..Len(events) : events[i].type = "quality-changed"}

\* C20: an automatic evaluation emits a tier-change event exactly when the tier
\* it selects differs from the current tier, which then becomes the selected
\* one; otherwise nothing is emitted and the tier stays. Every change of the
\* current tier comes with exactly one tier-change event, naming the new tier.
C20_EventIffTierChanges ==
  [][/\ lastCall'.op = "adjustQuality" =>
          LET selected == SelectedTier(bandwidthHistory)
          IN IF selected.name # currentTier.name
             THEN /\ currentTier' = selected
                  /\ emitted' = <<QualityChanged(selected)>>
             ELSE /\ currentTier' = currentTier
                  /\ emitted' = <<>>
     /\ currentTier' # currentTier =>
          /\ Cardinality(TierEvents(emitted')) = 1
          /\ \A i \in TierEvents(emitted') : emitted'[i].value = currentTier'.name]_vars

\* an evaluation that selected the tier already current, after a change to it
C20_Witness ==
  /\ lastCall.op = "adjustQuality"
  /\ emitted = <<>>
  /\ currentTier.name = "1080p"
  /\ bandwidthHistory = <<2950, 2950>>
  /\ lastCommitAt >= 0

\* C21: recording a sample changes the sample window and the pending timer
\* only: the current tier is unchanged and no tier-change event is emitted by
\* the call, nor by the passing of time before the debounce timer fires.
C21_SampleHasNoEffectBeforeTimer ==
  [][/\ lastCall'.op = "updateBandwidth" =>
          /\ currentTier' = currentTier
          /\ emitted' = <<>>
          /\ bandwidthHistory' # bandwidthHistory \/ Len(bandwidthHistory) = HistorySize
          /\ bandwidthHistory'[Len(bandwidthHistory')] = lastCall'.arg
          /\ timers' = {[id |-> stabilizationTimer', deadline |-> now + DebounceMs]}
          /\ <<now, meshVars, captureVars, pageVars, msgVars, initialQuality, roomVars, schedVars, speechVars>>' = <<now, meshVars, captureVars, pageVars, msgVars, initialQuality, roomVars, schedVars, speechVars>>
     /\ lastCall'.op = "tick" =>
          /\ currentTier' = currentTier
          /\ emitted' = <<>>
          /\ <<bandwidthHistory, stabilizationTimer, timers>>' =
               <<bandwidthHistory, stabilizationTimer, timers>>]_vars

\* two samples that select audio-only are recorded and a tick has passed, and
\* the tier is still the initial one
C21_Witness ==
  /\ lastCall.op = "tick"
  /\ bandwidthHistory = <<10, 10>>
  /\ timers # {}
  /\ currentTier.name = "720p"
  /\ lastCommitAt = -1
  /\ now = lastSampleAt + TickMs

\* the connections a call's message is for: those connected when the call
\* started, of the addressed peer id for sendMessage
Addressed(m) ==
  IF msgCalls[m].op = "sendMessage"
  THEN {c \in msgCalls[m].connected : conns[c].id = msgCalls[m].to}
  ELSE msgCalls[m].connected

SendsOf(m, c) == {i \in 1..Len(sendLog) : sendLog[i].msg = m /\ sendLog[i].conn = c}

MessageOnlyToConnected ==
  /\ \A i \in 1..Len(sendLog) : sendLog[i].conn \in Addressed(sendLog[i].msg)
  /\ \A m \in 1..Len(msgCalls) :
       msgCalls[m].raised => \E i \in 1..Len(sendLog) :
                                sendLog[i].msg = m /\ ~sendLog[i].sent

\* C22: a message for a peer that is not connected when the call is made
\* (no table entry, still signaling, or closed) is dropped: peer.send is called
\* only on connections connected at the call, a call raises only from such a
\* peer.send, and no step other than the call itself ever sends the message
\* (nothing is queued for a later connection).
C22_NotConnectedDropped ==
  [][/\ MessageOnlyToConnected'
     /\ sendLog' # sendLog =>
          /\ lastCall'.op \in {"sendMessage", "broadcastMessage"}
          /\ Len(msgCalls') = Len(msgCalls) + 1
          /\ SubSeq(sendLog', 1, Len(sendLog)) = sendLog
          /\ \A i \in (Len(sendLog) + 1)..Len(sendLog') :
               sendLog'[i].msg = Len(msgCalls')]_vars

\* a message was addressed to a peer whose connection was still signaling, the
\* connection has connected since, and the message was never sent
C22_Witness ==
  /\ lastCall.op = "connect"
  /\ \E m \in 1..Len(msgCalls) :
       /\ msgCalls[m].op = "sendMessage"
       /\ peers[msgCalls[m].to] \in ConnectedPeers
       /\ peers[msgCalls[m].to] \notin msgCalls[m].connected
       /\ \A i \in 1..Len(sendLog) : sendLog[i].msg # m

\* C23: a broadcast makes exactly one send attempt for every connection that
\* was connected when the call started, whatever the outcome of the other sends.
C23_BroadcastReachesEveryConnectedPeer ==
  \A m \in 1..Len(msgCalls) :
    msgCalls[m].op = "broadcastMessage" =>
      \A c \in msgCalls[m].connected : Cardinality(SendsOf(m, c)) = 1

(***************************************************************************)
(* Properties of the capture reconfiguration                               *)
(***************************************************************************)
\* C24: an adjustQuality call that finds the tier audio-only stops every video
\* track and removes it from the local stream, leaves the audio tracks in the
\* stream and running, and has the audio processor clamp its bitrate to the
\* floor of 64 kbps.
C24_AudioOnlyStopsVideoAndClampsAudio ==
  [][(/\ lastCall'.op = "WebRTCManager.adjustQuality"
      /\ currentTier'.name = "audio-only"
      /\ localStream.open) =>
        /\ localStream'.video = <<>>
        /\ TrackIds(localStream.video) \subseteq stopped'
        /\ localStream'.audio = localStream.audio
        /\ stopped' \cap TrackIds(localStream.audio) = stopped \cap TrackIds(localStream.audio)
        /\ audioSettings'.bitrate = 64]_vars

\* C25: when the re-acquisition that leaves audio-only has resolved, the local
\* stream is still the same stream object and holds the acquired video track,
\* and every connected peer of the table sends that track.
C25_LeavingAudioOnlyRestoresVideo ==
  lastCall.op = "restartVideoStream" =>
    /\ localStream.id # lastCall.arg
    /\ [src |-> lastCall.arg, kind |-> "video"] \in TrackIds(localStream.video)
    /\ \A c \in ConnectedPeers :
         [src |-> lastCall.arg, kind |-> "video"] \in conns[c].senders

\* C26: an adjustQuality call that finds a video tier current and a video track
\* in the local stream asks that track to apply the tier's constraints and
\* nothing else: no getUserMedia call, no replaceTrack, the stream and its
\* tracks unchanged; when the request settles the stream still holds the same
\* tracks, the target carrying the new constraints if they were applied.
C26_VideoTierAppliedInPlace ==
  [][/\ (/\ lastCall'.op = "WebRTCManager.adjustQuality"
         /\ localStream.open
         /\ currentTier'.name # "audio-only"
         /\ localStream.video # <<>>) =>
           /\ localStream' = localStream
           /\ acquisitionLog' = acquisitionLog
           /\ <<conns, attempted, stopped>>' = <<conns, attempted, stopped>>
           /\ \E p \in capturePending' :
                /\ p.op = "applyVideoConstraints"
                /\ p.target = TrackId(localStream.video[1])
                /\ p.constraints.video = currentTier'.name
           /\ \A p \in capturePending' \ capturePending : p.op = "applyVideoConstraints"
     /\ lastCall'.op \in {"applyVideoConstraints", "applyFailed"} =>
           /\ localStream'.id = localStream.id
           /\ TrackIds(localStream'.video) = TrackIds(localStream.video)
           /\ localStream'.audio = localStream.audio
           /\ acquisitionLog' = acquisitionLog
           /\ <<conns, attempted, stopped>>' = <<conns, attempted, stopped>>
           /\ lastCall'.op = "applyFailed" => localStream' = localStream
           /\ lastCall'.op = "applyVideoConstraints" =>
                \A i \in 1..Len(localStream.video) :
                  localStream'.video[i].constraints \in
                    {localStream.video[i].constraints, lastCall'.arg}]_vars

\* the first acquisition's video track went from 720p to 1080p in place
C26_Witness ==
  /\ lastCall.op = "applyVideoConstraints"
  /\ Len(acquisitionLog) = 1
  /\ Len(localStream.video) = 1
  /\ localStream.video[1].src = 1
  /\ localStream.video[1].constraints = "1080p"
  /\ currentTier.name = "1080p"

\* C27: once 144p is the current tier and the capture has settled on it, by the
\* debounce timer's evaluation followed by adjustQuality or by manual selection,
\* the audio of the local stream is captured with the reduced profile (mono,
\* 16 kHz) and the audio processor's bitrate is clamped to 64 kbps.
C27_Tier144pForcesReducedAudio ==
  (/\ currentTier.name = "144p"
   /\ localStream.open
   /\ capturePending = {}
   /\ lastCall.op \in {"applyVideoConstraints", "ultraLow"}) =>
     /\ \A i \in 1..Len(localStream.audio) : localStream.audio[i].constraints = "mono-16k"
     /\ audioSettings.bitrate = 64

(***************************************************************************)
(* Properties of the samplers                                              *)
(***************************************************************************)
\* C28: a failed stats query of a sampling cycle is swallowed: no event is
\* emitted, the page's stats are unchanged, a scheduled sampler stays scheduled
\* and is free to query again, and the connections and the peer table are left
\* as they are.
C28_StatsFailureSwallowed ==
  [][lastCall'.op = "statsFailed" =>
       /\ emitted' = <<>>
       /\ connectionStats' = connectionStats
       /\ latest' = latest
       /\ intervals' = intervals
       /\ \A iv \in intervals : iv.conn = lastCall'.arg => iv \notin inflight'
       /\ conns' = conns
       /\ peers' = peers]_vars

\* a stats query of a connected peer has failed and its sampler is still scheduled
C28_Witness ==
  /\ lastCall.op = "statsFailed"
  /\ conns[lastCall.arg].connected
  /\ peers[conns[lastCall.arg].id] = lastCall.arg
  /\ \E iv \in intervals : iv.conn = lastCall.arg /\ iv \notin inflight

(***************************************************************************)
(* Properties of the tier selection and of the catalog                     *)
(***************************************************************************)
\* the tiers whose total bandwidth is at most 0.8 * b
FitsSteady(b) == {i \in 1..Len(QUALITY_TIERS) : 10 * QUALITY_TIERS[i].totalBandwidth <= 8 * b}

\* C29: when the debounce timer has fired over a window that holds the same
\* sample b throughout, the current tier is the tier of the largest total
\* bandwidth not above 0.8 * b, audio-only when there is none: 720p for
\* b = 2500, audio-only for b = 100.
C29_SteadyStateSelection ==
  (/\ lastCall.op = "adjustQuality"
   /\ bandwidthHistory # <<>>
   /\ \A i \in 1..Len(bandwidthHistory) : bandwidthHistory[i] = bandwidthHistory[1]) =>
     LET b == bandwidthHistory[1]
     IN /\ IF FitsSteady(b) = {} THEN currentTier.name = "audio-only"
           ELSE \E i \in FitsSteady(b) :
                  /\ currentTier = QUALITY_TIERS[i]
                  /\ \A j \in FitsSteady(b) :
                       QUALITY_TIERS[j].totalBandwidth <= QUALITY_TIERS[i].totalBandwidth
        /\ b = 2500 => currentTier.name = "720p"
        /\ b = 100 => currentTier.name = "audio-only"

\* the timer has moved a manually selected tier to 720p over a window of 2500s
C29_Witness ==
  /\ lastCall.op = "adjustQuality"
  /\ bandwidthHistory = <<2500, 2500>>
  /\ currentTier.name = "720p"
  /\ emitted = <<QualityChanged(currentTier)>>

\* C30: the catalog is ordered by strictly decreasing total bandwidth, its last
\* entry is audio-only with video bitrate 0 and the least total bandwidth, and
\* every entry's total bandwidth is its video bitrate plus its audio bitrate;
\* so it is for the tier the controller holds.
C30_CatalogOrderedAndConsistent ==
  /\ \A i \in 1..(Len(QUALITY_TIERS) - 1) :
       QUALITY_TIERS[i].totalBandwidth > QUALITY_TIERS[i + 1].totalBandwidth
  /\ QUALITY_TIERS[Len(QUALITY_TIERS)].name = "audio-only"
  /\ QUALITY_TIERS[Len(QUALITY_TIERS)].videoBitrate = 0
  /\ \A i \in 1..Len(QUALITY_TIERS) :
       /\ QUALITY_TIERS[i].totalBandwidth >=
            QUALITY_TIERS[Len(QUALITY_TIERS)].totalBandwidth
       /\ QUALITY_TIERS[i].totalBandwidth =
            QUALITY_TIERS[i].videoBitrate + QUALITY_TIERS[i].audioBitrate
  /\ currentTier.totalBandwidth = currentTier.videoBitrate + currentTier.audioBitrate
  /\ currentTier.totalBandwidth >= QUALITY_TIERS[Len(QUALITY_TIERS)].totalBandwidth

\* the scan has run past every entry of the catalog and selected the last one
C30_Witness ==
  /\ lastCall.op = "adjustQuality"
  /\ bandwidthHistory = <<10>>
  /\ currentTier = QUALITY_TIERS[Len(QUALITY_TIERS)]
  /\ currentTier.videoBitrate = 0

(***************************************************************************)
(* Properties of overlapping operations                                    *)
(***************************************************************************)
\* C31: the 'close' event of a connection that createPeer has superseded leaves
\* the replacement alone: the table still maps the peer id to the replacement
\* and the replacement is not destroyed by the event.
C31_LateCloseKeepsReplacement ==
  [][(/\ lastCall'.op = "close"
      /\ peers[conns[lastCall'.arg].id] \notin {0, lastCall'.arg}) =>
        LET replacement == peers[conns[lastCall'.arg].id]
        IN /\ peers'[conns[lastCall'.arg].id] = replacement
           /\ conns'[replacement].destroyed = conns[replacement].destroyed]_vars

\* C32: the local stream never carries more than one video track.
C32_AtMostOneVideoTrack == Len(localStream.video) <= 1

\* C33: an initialize() call made when the session is initialized, or while the
\* acquisition of an earlier call is still awaited, starts no acquisition.
C33_InitializeAcquiresOnce ==
  [][(/\ lastCall'.op = "initialize"
      /\ \/ isInitialized
         \/ \E p \in capturePending : p.op \in {"setupLocalStream", "fallback"}) =>
        /\ acquisitionLog' = acquisitionLog
        /\ capturePending' = capturePending]_vars

(***************************************************************************)
(* Properties of the ultra-low bandwidth mode                              *)
(***************************************************************************)
\* C34: when enableUltraLowBandwidthMode has replaced the local stream, every
\* connection of the peer table, connected or still signaling, references the
\* new stream and none references the stream that was stopped.
C34_EveryPeerReferencesNewStream ==
  lastCall.op = "ultraLow" =>
    \A q \in PeerIds :
      peers[q] # 0 => conns[peers[q]].streams = <<localStream.id>>

\* C35: a failed acquisition of enableUltraLowBandwidthMode changes nothing: the
\* local stream and its tracks, the stopped tracks, the current tier, the
\* connections, the audio settings and the initialization state are as before
\* and no event is emitted.
C35_UltraLowFailureChangesNothing ==
  [][lastCall'.op = "ultraLowFailed" =>
       /\ localStream' = localStream
       /\ stopped' = stopped
       /\ currentTier' = currentTier
       /\ conns' = conns
       /\ peers' = peers
       /\ audioSettings' = audioSettings
       /\ isInitialized' = isInitialized
       /\ emitted' = <<>>
       /\ \A p \in capturePending' : p.src # lastCall'.arg]_vars

\* the acquisition has failed in a session with a running stream and a
\* connected peer that references it
C35_Witness ==
  /\ lastCall.op = "ultraLowFailed"
  /\ localStream.open
  /\ localStream.video # <<>>
  /\ (TrackIds(localStream.video) \cup TrackIds(localStream.audio)) \cap stopped = {}
  /\ currentTier.name = "720p"
  /\ audioSettings.bitrate = 192
  /\ \E c \in ConnectedPeers : conns[c].streams = <<localStream.id>>

(***************************************************************************)
(* Properties of the current tier                                          *)
(***************************************************************************)
\* C36: the current tier is always an entry of the catalog: a controller
\* constructed with a name that is not in the catalog starts at 720p, and
\* setQuality with such a name leaves the current tier as it was and emits no
\* tier-change event.
C36_CurrentTierInCatalog ==
  /\ (initialQuality \notin VideoQuality => currentTier.name = "720p")
  /\ currentTier \in Range(QUALITY_TIERS)
  /\ [][/\ currentTier' \in Range(QUALITY_TIERS)
        /\ (lastCall'.op = "setQuality" /\ lastCall'.arg \notin VideoQuality) =>
             /\ currentTier' = currentTier
             /\ emitted' = <<>>]_vars

\* a controller constructed with an unknown name is at 720p after a setQuality
\* call with an unknown name
C36_Witness ==
  /\ initialQuality = "4k"
  /\ lastCall = [op |-> "setQuality", arg |-> "4k"]
  /\ currentTier = QUALITY_TIERS[2]
  /\ bandwidthHistory = <<10>>

(***************************************************************************)
(* Properties of the room routes                                           *)
(***************************************************************************)
\* the entries of a room's participant list that a join request has produced
ParticipantsOf(r, request) ==
  {i \in 1..Len(rooms[r].participants) : rooms[r].participants[i].id = request.userId}

C38_RoomWithinCapacity ==
  /\ \A r \in RoomIds : Len(rooms[r].participants) <= rooms[r].maxParticipants
  /\ [][/\ \A r \in RoomIds : Len(rooms'[r].participants) <= rooms'[r].maxParticipants
        /\ \A r \in RoomIds :
             (/\ rooms[r].exists
              /\ Len(rooms[r].participants) >= rooms[r].maxParticipants
              /\ lastCall'.op \in {"join", "approve"}) =>
                /\ rooms' = rooms
                /\ joinRequests' = joinRequests
                /\ response'.status # 200
                /\ (lastCall'.op = "join" \/ response'.status = 400) =>
                     response'.error = "Room is at capacity"]_vars

\* an admin's approval of a pending request has been refused at capacity
C38_Witness ==
  /\ lastCall.op = "approve"
  /\ response = Response(400, "Room is at capacity", "")
  /\ Len(rooms["r1"].participants) = rooms["r1"].maxParticipants
  /\ rooms["r1"].maxParticipants = MaxCapacity
  /\ \E k \in 1..Len(joinRequests["r1"]) :
       joinRequests["r1"][k].id = lastCall.arg /\ joinRequests["r1"][k].status = "pending"

(***************************************************************************)
(* Properties of the attendance scheduler and of speech recognition        *)
(***************************************************************************)
\* C39: a cron task that existed when its room was last cancelled, or the
\* scheduler disposed, does not change the room's tracking state when it
\* fires afterwards.
C39_CancelledJobsStaySilent ==
  [][(/\ lastCall'.op = "cronJob"
      /\ lastCall'.arg <= cancelMark[cronJobs[lastCall'.arg].roomId]) =>
        activeTracking' = activeTracking]_vars

\* C40: a restart timeout that fires while listening is switched off does not
\* start the recognition.
C40_NoRestartAfterStop ==
  [][(lastCall'.op = "restartTimer" /\ ~isListening) =>
        /\ recognition' = recognition
        /\ recognitionStarts' = recognitionStarts]_vars
====
